---- MODULE Spec2Model ----
(***************************************************************************)
(* Price monitoring service: the pricing rule engine (pricing/rules.py),   *)
(* the check orchestration (pricing/service.py, db/session.py), the site   *)
(* adapters (scraper/parsers) and the scraper facade (scraper/__init__.py).*)
(*                                                                         *)
(* Prices are written in thousandths (mills) where they are inputs and in  *)
(* hundredths (cents) where round_price or the Numeric(12, 2) column has   *)
(* produced them.  Python floats are IEEE-754 binary64 values, modelled    *)
(* exactly as sign, mantissa and exponent over arbitrary-size naturals.    *)
(***************************************************************************)
EXTENDS Integers, Sequences, FiniteSets, TLC

(***************************************************************************)
(* Arbitrary-size naturals: little-endian sequences of 15-bit limbs.       *)
(***************************************************************************)
LimbBits == 15
LimbBase == 32768
MantissaBits == 53

RECURSIVE Pow2(_)
Pow2(n) == IF n = 0 THEN 1 ELSE 2 * Pow2(n - 1)

RECURSIVE BNorm(_)
BNorm(a) == IF a # <<>> /\ a[Len(a)] = 0 THEN BNorm(SubSeq(a, 1, Len(a) - 1)) ELSE a

RECURSIVE BFromInt(_)
BFromInt(n) == IF n = 0 THEN <<>> ELSE <<n % LimbBase>> \o BFromInt(n \div LimbBase)

RECURSIVE BToInt(_)
BToInt(a) == IF a = <<>> THEN 0 ELSE a[1] + LimbBase * BToInt(Tail(a))

BLimb(a, i) == IF i <= Len(a) THEN a[i] ELSE 0

RECURSIVE BAddC(_, _, _)
BAddC(a, b, c) ==
    IF a = <<>> /\ b = <<>> THEN (IF c = 0 THEN <<>> ELSE <<c>>)
    ELSE LET s == BLimb(a, 1) + BLimb(b, 1) + c
         IN  <<s % LimbBase>> \o
             BAddC(IF a = <<>> THEN a ELSE Tail(a), IF b = <<>> THEN b ELSE Tail(b), s \div LimbBase)
BAdd(a, b) == BAddC(a, b, 0)

RECURSIVE BSubC(_, _, _)
BSubC(a, b, c) ==
    IF a = <<>> THEN <<>>
    ELSE LET d == a[1] - BLimb(b, 1) - c
         IN  <<(d + LimbBase) % LimbBase>> \o
             BSubC(Tail(a), IF b = <<>> THEN b ELSE Tail(b), IF d < 0 THEN 1 ELSE 0)
BSub(a, b) == BNorm(BSubC(a, b, 0))

RECURSIVE BCmpFrom(_, _, _)
BCmpFrom(a, b, i) ==
    IF i = 0 THEN 0
    ELSE IF a[i] > b[i] THEN 1 ELSE IF a[i] < b[i] THEN -1 ELSE BCmpFrom(a, b, i - 1)
BCmp(a, b) ==
    IF Len(a) > Len(b) THEN 1 ELSE IF Len(a) < Len(b) THEN -1 ELSE BCmpFrom(a, b, Len(a))

RECURSIVE BMulSmallC(_, _, _)
BMulSmallC(a, k, c) ==
    IF a = <<>> THEN BFromInt(c)
    ELSE LET s == a[1] * k + c
         IN  <<s % LimbBase>> \o BMulSmallC(Tail(a), k, s \div LimbBase)
BMulSmall(a, k) == BNorm(BMulSmallC(a, k, 0))

RECURSIVE BMul(_, _)
BMul(a, b) ==
    IF b = <<>> THEN <<>>
    ELSE BAdd(BMulSmall(a, b[1]), LET r == BMul(a, Tail(b)) IN IF r = <<>> THEN r ELSE <<0>> \o r)

RECURSIVE BDivSmallFrom(_, _, _, _)
BDivSmallFrom(a, d, i, r) ==
    IF i = 0 THEN [q |-> <<>>, r |-> r]
    ELSE LET cur  == r * LimbBase + a[i]
             rest == BDivSmallFrom(a, d, i - 1, cur % d)
         IN  [q |-> rest.q \o <<cur \div d>>, r |-> rest.r]
BDivSmall(a, d) ==
    LET x == BDivSmallFrom(a, d, Len(a), 0) IN [q |-> BNorm(x.q), r |-> x.r]

Zeros(n) == [i \in 1..n |-> 0]
BShl(a, n) ==
    IF a = <<>> THEN a
    ELSE Zeros(n \div LimbBits) \o BMulSmall(a, Pow2(n % LimbBits))
BShr(a, n) ==
    IF n \div LimbBits >= Len(a) THEN <<>>
    ELSE BDivSmall(SubSeq(a, n \div LimbBits + 1, Len(a)), Pow2(n % LimbBits)).q

RECURSIVE IntBitLen(_)
IntBitLen(n) == IF n = 0 THEN 0 ELSE 1 + IntBitLen(n \div 2)
BBitLen(a) == IF a = <<>> THEN 0 ELSE LimbBits * (Len(a) - 1) + IntBitLen(a[Len(a)])
BTestBit(a, i) == (BLimb(a, i \div LimbBits + 1) \div Pow2(i % LimbBits)) % 2 = 1
\* some bit below position n is set
BLowNonzero(a, n) ==
    \/ \E i \in 1..(n \div LimbBits) : BLimb(a, i) # 0
    \/ BLimb(a, n \div LimbBits + 1) % Pow2(n % LimbBits) # 0

\* the double nearest to N * 2^e (round half to even), as [m, e]
RoundNat(N, e) ==
    LET len == BBitLen(N) IN
    IF len <= MantissaBits THEN [m |-> N, e |-> e]
    ELSE LET s    == len - MantissaBits
             q    == BShr(N, s)
             up   == BTestBit(N, s - 1) /\ (BLowNonzero(N, s - 1) \/ BTestBit(q, 0))
         IN  [m |-> IF up THEN BAdd(q, <<1>>) ELSE q, e |-> e + s]

DivShift == 75
\* the double nearest to n / d, for naturals n and 0 < d < LimbBase
FromRatio(n, d) ==
    LET x == BDivSmall(BShl(BFromInt(n), DivShift), d)
    IN  RoundNat(BAdd(BMulSmall(x.q, 2), IF x.r = 0 THEN <<>> ELSE <<1>>), -DivShift - 1)

Min(a, b) == IF a < b THEN a ELSE b
\* magnitudes: exact sum / difference / product, then rounded
MAlign(x, e) == BShl(x.m, x.e - e)
MAdd(x, y) == LET e == Min(x.e, y.e) IN RoundNat(BAdd(MAlign(x, e), MAlign(y, e)), e)
MCmp(x, y) == LET e == Min(x.e, y.e) IN BCmp(MAlign(x, e), MAlign(y, e))
MSub(x, y) == LET e == Min(x.e, y.e) IN RoundNat(BSub(MAlign(x, e), MAlign(y, e)), e)
MMul(x, y) == RoundNat(BMul(x.m, y.m), x.e + y.e)

\* signed doubles [neg, m, e]
Dbl(neg, x) == [neg |-> neg /\ x.m # <<>>, m |-> x.m, e |-> x.e]
FloatOf(n, d) == Dbl(n < 0, FromRatio(IF n < 0 THEN -n ELSE n, d))
FAdd(x, y) ==
    IF x.neg = y.neg THEN Dbl(x.neg, MAdd(x, y))
    ELSE IF MCmp(x, y) >= 0 THEN Dbl(x.neg, MSub(x, y)) ELSE Dbl(y.neg, MSub(y, x))
FNeg(x) == Dbl(~x.neg, x)
FSub(x, y) == FAdd(x, [y EXCEPT !.neg = ~y.neg])
FMul(x, y) == Dbl(x.neg # y.neg, MMul(x, y))

\* Decimal(x).quantize(Decimal("0.01"), ROUND_HALF_UP) in hundredths
QuantizeCents(x) ==
    LET mag == IF x.e >= 0
               THEN BToInt(BShr(BAdd(BShl(BMulSmall(x.m, 200), x.e), <<1>>), 1))
               ELSE BToInt(BShr(BAdd(BMulSmall(x.m, 200), BShl(<<1>>, -x.e)), 1 - x.e))
    IN  IF x.neg THEN -mag ELSE mag

(***************************************************************************)
(* State.                                                                  *)
(***************************************************************************)
VARIABLES
    \* apply_pricing_rules: its arguments and what the call produced
    competitor_price, rules, fallback_price_types, result,
    \* the database: committed rows of products and price_events
    products, price_events,
    \* the SQLAlchemy session of the running check_all_products call
    session,
    \* the check_all_products call: position in its loop, its local events list
    run,
    \* price updates MoySklad has received
    msklad,
    \* the clock read by datetime.utcnow()
    now,
    \* the most recent check_product call: what it was given, what it did
    last_check,
    \* a product page as an adapter meets it, and what fetch_product made of it
    page, snapshot,
    \* the ScraperService: its parser instances, and the calls running on it
    instances, calls,
    \* the lock of the ScraperService, and the parsers constructed so far
    lock, constructed,
    \* a parser function under test: the function with its arguments, and what
    \* the call gave back
    args, ret,
    \* the MoySklad client: the exchanges of its HTTP session, and its call
    http, client,
    \* the bot: the manual recheck in progress, and the texts sent to the user
    recheck, messages

rulesVars == <<competitor_price, rules, fallback_price_types, result>>
batchVars == <<products, price_events, session, run, msklad, now, last_check>>
fetchVars == <<page, snapshot>>
scraperVars == <<instances, calls, lock, constructed>>
parserVars == <<args, ret>>
clientVars == <<http, client>>
botVars == <<recheck, messages>>
vars == <<competitor_price, rules, fallback_price_types, result,
          products, price_events, session, run, msklad, now, last_check,
          page, snapshot, instances, calls, lock, constructed, args, ret,
          http, client, recheck, messages>>

\* Python's None, and a value that is present
None == [none |-> TRUE]
Some(v) == [value |-> v]

\* no call of apply_pricing_rules is being observed
NotCalled == [status |-> "none"]
RulesIdle ==
    /\ competitor_price = None
    /\ rules = <<>>
    /\ fallback_price_types = <<>>
    /\ result = NotCalled

\* no database, no batch run
NoSession == [active |-> FALSE]
NoRun == [pc |-> "none"]
BatchIdle ==
    /\ products = <<>>
    /\ price_events = <<>>
    /\ session = NoSession
    /\ run = NoRun
    /\ msklad = <<>>
    /\ now = 0
    /\ last_check = None

\* no page, no fetch
FetchIdle ==
    /\ page = None
    /\ snapshot = None

\* no ScraperService
ScraperIdle ==
    /\ instances = {}
    /\ calls = <<>>
    /\ lock = None
    /\ constructed = <<>>

\* no parser function under test
ParserIdle ==
    /\ args = None
    /\ ret = None

\* no MoySklad client
ClientIdle ==
    /\ http = <<>>
    /\ client = None

\* no bot
BotIdle ==
    /\ recheck = None
    /\ messages = <<>>

(***************************************************************************)
(* Pricing rule engine (pricing/rules.py).                                 *)
(***************************************************************************)
\* bounds of the rule-engine inputs
MaxRules == 2
MaxPriority == 2
MaxPriceMills == 30
MaxValue == 52

\* RuleType, plus one value that is no member of the enum
RuleTypes == {"PERCENT_MARKUP", "MINUS_FIXED", "EQUAL"}
UnsupportedRuleType == "UNSUPPORTED"

\* price-type names in ascending string order (the sort key's second part)
PriceTypeOrder == <<"Online", "Retail", "Sale", "Wholesale">>
NameRank(name) == CHOOSE i \in 1..Len(PriceTypeOrder) : PriceTypeOrder[i] = name

\* a competitor price: a Python float or a decimal.Decimal, of mills/1000
FloatPrice(mills) == [kind |-> "float", mills |-> mills]
DecimalPrice(mills) == [kind |-> "decimal", mills |-> mills]

PricingRuleSpec(rule_type, value, price_type, priority) ==
    [rule_type |-> rule_type, value |-> value, price_type |-> price_type, priority |-> priority]

\* Python values an expression of apply_rule evaluates to
PyFloat(f) == [t |-> "float", f |-> f]
PyDecimal(mills) == [t |-> "decimal", mills |-> mills]
PyInt(n) == [t |-> "int", n |-> n]
PyRaise(error) == [t |-> "raise", error |-> error]

PriceValue(price) ==
    IF price.kind = "float" THEN PyFloat(FloatOf(price.mills, 1000)) ELSE PyDecimal(price.mills)

\* price * (1 + spec.value / 100.0): Decimal * float is a TypeError
percent_markup(price, spec) ==
    IF price.kind = "float"
    THEN PyFloat(FMul(FloatOf(price.mills, 1000),
                      FAdd(FloatOf(1, 1), FloatOf(spec.value, 100))))
    ELSE PyRaise("TypeError")

\* max(price - spec.value, 0): Decimal - float is a TypeError; max keeps its
\* first argument unless the second is strictly greater
minus_fixed(price, spec) ==
    IF price.kind = "float"
    THEN LET d == FSub(FloatOf(price.mills, 1000), FloatOf(spec.value, 1))
         IN  IF d.neg THEN PyInt(0) ELSE PyFloat(d)
    ELSE PyRaise("TypeError")

apply_rule_skips_unknown(price, spec) ==
    CASE spec.rule_type = "PERCENT_MARKUP" -> percent_markup(price, spec)
      [] spec.rule_type = "MINUS_FIXED" -> minus_fixed(price, spec)
      [] OTHER -> PriceValue(price)

apply_rule(price, spec) ==
    CASE spec.rule_type = "PERCENT_MARKUP" -> percent_markup(price, spec)
      [] spec.rule_type = "MINUS_FIXED" -> minus_fixed(price, spec)
      [] spec.rule_type = "EQUAL" -> PriceValue(price)
      [] OTHER -> PyRaise("ValueError")

round_price_truncates(value) ==
    CASE value.t = "float" -> QuantizeCents(FAdd(value.f, FloatOf(-1, 200)))
      [] value.t = "decimal" -> value.mills \div 10
      [] value.t = "int" -> 100 * value.n

\* Decimal(value).quantize(Decimal("0.01"), rounding=ROUND_HALF_UP), in cents
round_price(value) ==
    CASE value.t = "float" -> QuantizeCents(value.f)
      [] value.t = "decimal" -> (value.mills + 5) \div 10
      [] value.t = "int" -> 100 * value.n

\* sorted(rules, key=lambda r: (r.priority, r.price_type)): stable
KeyLeq(a, b) ==
    \/ a.priority < b.priority
    \/ a.priority = b.priority /\ NameRank(a.price_type) <= NameRank(b.price_type)

RECURSIVE InsertSorted(_, _)
InsertSorted(s, r) ==
    IF s = <<>> THEN <<r>>
    ELSE IF KeyLeq(s[1], r) THEN <<s[1]>> \o InsertSorted(Tail(s), r)
    ELSE <<r>> \o s

RECURSIVE SortedFrom(_, _)
SortedFrom(done, todo) ==
    IF todo = <<>> THEN done ELSE SortedFrom(InsertSorted(done, todo[1]), Tail(todo))

sorted_rules(rs) == SortedFrom(<<>>, rs)

EmptyMapping == [name \in {} |-> 0]

store_keeps_first(mapping, price_type, value) == mapping @@ (price_type :> value)

\* result[rule.price_type] = updated_price
store(mapping, price_type, value) == (price_type :> value) @@ mapping

\* the loop over rule_list; the first rule that raises ends the call
RECURSIVE apply_rule_list(_, _, _)
apply_rule_list(price, rule_list, mapping) ==
    IF rule_list = <<>> THEN [status |-> "ok", mapping |-> mapping]
    ELSE LET applied == apply_rule(price, rule_list[1])
         IN  IF applied.t = "raise"
             THEN [status |-> "raised", error |-> applied.error]
             ELSE apply_rule_list(price, Tail(rule_list),
                                  store(mapping, rule_list[1].price_type, round_price(applied)))

RECURSIVE store_all(_, _, _)
store_all(mapping, names, value) ==
    IF names = <<>> THEN mapping
    ELSE store_all(store(mapping, names[1], value), Tail(names), value)

fallback_always(mapping, fallback) == fallback # <<>>

\* if not result and fallback_price_types
use_fallback(mapping, fallback) == mapping = EmptyMapping /\ fallback # <<>>

apply_pricing_rules(price, rs, fallback) ==
    LET looped == apply_rule_list(price, sorted_rules(rs), EmptyMapping)
    IN  IF looped.status = "raised" THEN looped
        ELSE IF use_fallback(looped.mapping, fallback)
             THEN [status |-> "ok",
                   mapping |-> store_all(looped.mapping, fallback, round_price(PriceValue(price)))]
             ELSE looped

(***************************************************************************)
(* Calls of apply_pricing_rules over bounded inputs.                       *)
(***************************************************************************)
Range(s) == {s[i] : i \in 1..Len(s)}
SeqsUpTo(S, n) == UNION {[1..k -> S] : k \in 0..n}

\* rule lists of any length up to MaxRules over a few kinds, names, priorities
ListRules ==
    {PricingRuleSpec(tv[1], tv[2], name, priority) :
        tv \in {<<"PERCENT_MARKUP", 10>>, <<"MINUS_FIXED", 5>>, <<"EQUAL", 0>>,
                <<UnsupportedRuleType, 0>>},
        name \in {"Online", "Retail"},
        priority \in 1..MaxPriority}
ListPrices == {FloatPrice(100000), DecimalPrice(100000), FloatPrice(99990)}

\* one rule over many parameters and prices
SingleRules ==
    {PricingRuleSpec(rule_type, value, "Retail", 1) :
        rule_type \in {"PERCENT_MARKUP", "MINUS_FIXED"},
        value \in {-150, -5} \cup 0..MaxValue}
SinglePrices ==
    {FloatPrice(m) : m \in (0..MaxPriceMills) \cup {100000, 1790500}}
        \cup {DecimalPrice(m) : m \in {0, 15, 100000}}

FallbackLists == {<<>>, <<"Retail">>, <<"Retail", "Wholesale">>}

Inputs ==
    (ListPrices \X SeqsUpTo(ListRules, MaxRules) \X FallbackLists)
        \cup (SinglePrices \X {<<r>> : r \in SingleRules} \X {<<>>})
        \cup (SinglePrices \X {<<>>} \X FallbackLists)

InitRules ==
    /\ \E in \in Inputs :
        /\ competitor_price = in[1]
        /\ rules = in[2]
        /\ fallback_price_types = in[3]
    /\ result = NotCalled
    /\ BatchIdle
    /\ ClientIdle
    /\ BotIdle
    /\ FetchIdle
    /\ ScraperIdle
    /\ ParserIdle

Apply ==
    /\ result = NotCalled
    /\ result' = apply_pricing_rules(competitor_price, rules, fallback_price_types)
    /\ UNCHANGED <<competitor_price, rules, fallback_price_types>>
    /\ UNCHANGED <<batchVars, fetchVars, scraperVars, parserVars, clientVars, botVars>>

NextRules == Apply

SpecRules == InitRules /\ [][NextRules]_vars

(***************************************************************************)
(* Claims about the rule engine.                                           *)
(***************************************************************************)
Called == result # NotCalled
Returned == result.status = "ok"
RuleIndexes == 1..Len(rules)
RuleNames == {rules[i].price_type : i \in RuleIndexes}
Cents(rule) == round_price(apply_rule(competitor_price, rule))

\* rule i is the one the sort puts last among the rules naming its price type:
\* highest priority number, and among equals the latest in the given order
SortsLast(i) ==
    \A j \in RuleIndexes :
        rules[j].price_type = rules[i].price_type =>
            \/ rules[j].priority < rules[i].priority
            \/ rules[j].priority = rules[i].priority /\ j <= i

MarkupThenMinus ==
    <<PricingRuleSpec("PERCENT_MARKUP", 10, "Retail", 1),
      PricingRuleSpec("MINUS_FIXED", 5, "Retail", 2)>>
MinusThenMarkup == <<MarkupThenMinus[2], MarkupThenMinus[1]>>

\* C1: when several rules name one price type, the returned value for it is
\* the one computed by the rule sorted last by (priority, price-type name);
\* PercentMarkup(10) priority 1 and MinusFixed(5) priority 2 at 100 give 95.00.
C1_LastSortedRuleWins ==
    Returned =>
        /\ \A i \in RuleIndexes :
              SortsLast(i) => result.mapping[rules[i].price_type] = Cents(rules[i])
        /\ (competitor_price = FloatPrice(100000) /\ rules \in {MarkupThenMinus, MinusThenMarkup})
              => result.mapping["Retail"] = 9500

C1_Witness ==
    /\ Returned
    /\ competitor_price = FloatPrice(100000)
    /\ rules = MinusThenMarkup
    /\ result.mapping["Retail"] = 9500
    /\ Cents(rules[2]) = 11000

\* C6: the keys of the returned mapping are exactly the price types the rules
\* name when there are rules, exactly the fallback names when there are none,
\* and there are no keys when both are empty.
C6_KeysAreRuleNamesElseFallbackNames ==
    Returned =>
        DOMAIN result.mapping =
            IF rules # <<>> THEN RuleNames ELSE Range(fallback_price_types)

C6_Witness ==
    /\ Returned
    /\ rules # <<>>
    /\ "Wholesale" \in Range(fallback_price_types)
    /\ DOMAIN result.mapping = {"Online", "Retail"}

\* C7: a PercentMarkup rule with v >= 0 stores p * (1 + v / 100) rounded
\* half-up to 2 decimals, and that value is at least p.  Stated for the
\* prices of whole cents that reach the engine as floats.
C7_PercentMarkupIsExactHalfUp ==
    (/\ Called
     /\ Len(rules) = 1
     /\ rules[1].rule_type = "PERCENT_MARKUP"
     /\ rules[1].value >= 0
     /\ competitor_price.kind = "float"
     /\ competitor_price.mills % 10 = 0)
        => /\ Returned
           /\ result.mapping[rules[1].price_type]
                = (competitor_price.mills * (100 + rules[1].value) + 500) \div 1000
           /\ 10 * result.mapping[rules[1].price_type] >= competitor_price.mills

Abs(n) == IF n < 0 THEN -n ELSE n
Max(a, b) == IF a > b THEN a ELSE b

\* C8: a MinusFixed rule with parameter v stores max(p - v, 0) rounded to
\* 2 decimals (the nearest cent), never a negative value.
C8_MinusFixedIsClampedDifference ==
    (/\ Called
     /\ Len(rules) = 1
     /\ rules[1].rule_type = "MINUS_FIXED")
        => /\ Returned
           /\ result.mapping[rules[1].price_type] >= 0
           /\ Abs(10 * result.mapping[rules[1].price_type]
                    - Max(competitor_price.mills - 1000 * rules[1].value, 0)) <= 5

C10_UnknownRuleKindFails ==
    (Called /\ \E i \in RuleIndexes : rules[i].rule_type \notin RuleTypes) =>
        /\ result.status = "raised"
        /\ competitor_price.kind = "float" => result.error = "ValueError"

C10_Witness ==
    /\ result.status = "raised"
    /\ Len(rules) = 2
    /\ rules[1].rule_type \notin RuleTypes
    /\ rules[1].priority > rules[2].priority
    /\ rules[2].rule_type = "EQUAL"

(***************************************************************************)
(* Orchestration (pricing/service.py, db/session.py, db/models.py).        *)
(***************************************************************************)
\* bounds of the batch model
MaxProducts == 2
MaxRuns == 2

\* settings.default_price_types, settings.price_check_batch_size
default_price_types == <<"Sale">>
price_check_batch_size == 20

\* products.last_checked_at IS NULL
NullTime == 0

MSkladLink(msklad_code, price_types, auto_update) ==
    [msklad_code |-> msklad_code, price_types |-> price_types, auto_update |-> auto_update]

\* a row of products with what its relationships load: the site's adapter,
\* the product's own rules, the rules of its categories, its MoySklad links
Product(enabled, parser_adapter, pricing_rules, category_rules, links) ==
    [enabled |-> enabled, parser_adapter |-> parser_adapter,
     pricing_rules |-> pricing_rules, category_rules |-> category_rules,
     links |-> links, last_price |-> None, last_checked_at |-> NullTime]

\* a value written to a Numeric(12, 2) column, in cents
Numeric(price) == (price.mills + 5) \div 10

\* the adapters build ProductSnapshot.price as float (mk4s) or Decimal
snapshot_price(parser_adapter, mills) ==
    IF parser_adapter = "mk4s" THEN FloatPrice(mills) ELSE DecimalPrice(mills)

\* rules of the product followed by the rules of its categories
merge_rules(product_rules, category_rules) == product_rules \o category_rules

RECURSIVE link_price_types(_)
link_price_types(links) ==
    IF links = <<>> THEN <<>> ELSE links[1].price_types \o link_price_types(Tail(links))

build_price_map(product, price) ==
    LET merged == merge_rules(product.pricing_rules, product.category_rules)
        linked == link_price_types(product.links)
        fallback_types == IF linked = <<>> THEN default_price_types ELSE linked
    IN  IF merged = <<>>
        THEN apply_pricing_rules(price, <<>>, fallback_types)
        ELSE apply_pricing_rules(price, merged, <<>>)

\* price_map.get(price_type, price_map.get(settings.default_price_types[0]))
payload_value(price_map, price_type) ==
    IF price_type \in DOMAIN price_map THEN Some(price_map[price_type])
    ELSE IF default_price_types[1] \in DOMAIN price_map
         THEN Some(price_map[default_price_types[1]])
         ELSE None

link_payload(link, price_map) ==
    [price_type \in Range(link.price_types) |-> payload_value(price_map, price_type)]

\* update_product_prices computes int(round(value * 100)) for every value it is
\* given: a value of None is a TypeError, raised before the PUT
unvalued(payload) == \E price_type \in DOMAIN payload : payload[price_type] = None

\* one update_product_prices call per auto-updated link, all started together;
\* the calls to codes in failing raise MoySkladError, the calls with a value of
\* None raise TypeError, the others go through
push_to_msklad(product, price_map, failing) ==
    LET auto  == SelectSeq(product.links, LAMBDA link : link.auto_update)
        tasks == [i \in 1..Len(auto) |->
                    [msklad_code |-> auto[i].msklad_code,
                     payload |-> link_payload(auto[i], price_map)]]
    IN  [raised |-> \E i \in 1..Len(tasks) :
                        tasks[i].msklad_code \in failing \/ unvalued(tasks[i].payload),
         error |-> IF \E i \in 1..Len(tasks) : tasks[i].msklad_code \in failing
                   THEN "MoySkladError" ELSE "TypeError",
         delivered |-> SelectSeq(tasks, LAMBDA task :
                            task.msklad_code \notin failing /\ ~unvalued(task.payload))]

\* last_price is None or abs(last_price - new_price) > 0.0001, where last_price
\* is float(product.last_price): float - Decimal is a TypeError
price_changed(stored, new_price) ==
    IF stored = None THEN [t |-> "bool", b |-> TRUE]
    ELSE IF new_price.kind = "decimal" THEN PyRaise("TypeError")
    ELSE [t |-> "bool",
          b |-> MCmp(FSub(FloatOf(stored.value, 100), FloatOf(new_price.mills, 1000)),
                     FloatOf(1, 10000)) > 0]

PriceEvent(product_id, old_price, new_price, pushed_to_msklad) ==
    [product_id |-> product_id, old_price |-> old_price, new_price |-> new_price,
     pushed_to_msklad |-> pushed_to_msklad]

\* what a check_product call did: how it ended, whether it decided that the
\* price changed, what it assigned to the product, the event it added to the
\* session, the updates MoySklad received
Checked(outcome, error, changed, assigned, event, delivered) ==
    [outcome |-> outcome, error |-> error, changed |-> changed,
     assigned |-> assigned, event |-> event, delivered |-> delivered]

Fetched(price) == [ok |-> TRUE, price |-> price]
FetchFailed(error) == [ok |-> FALSE, error |-> error]

\* check_product from the push on: await self._push_to_msklad(product, price_map),
\* event.pushed_to_msklad = True, return event
check_product_pushed(assigned, event, pushed) ==
    IF pushed.raised
    THEN Checked("raised", Some(pushed.error), "yes", assigned, Some(event),
                 pushed.delivered)
    ELSE Checked("event", None, "yes", assigned,
                 Some([event EXCEPT !.pushed_to_msklad = TRUE]), pushed.delivered)

\* check_product from the price map on: if price_map: push
check_product_priced(product, assigned, event, built, failing) ==
    IF built.status = "raised"
    THEN Checked("raised", Some(built.error), "yes", assigned, Some(event), <<>>)
    ELSE IF built.mapping = EmptyMapping
    THEN Checked("event", None, "yes", assigned, Some(event), <<>>)
    ELSE check_product_pushed(assigned, event,
                              push_to_msklad(product, built.mapping, failing))

\* check_product from the comparison on: assign last_price and last_checked_at,
\* return None if the price did not change, else add the event to the session
check_product_compared(product_id, product, new_price, changed, failing, t) ==
    IF changed.t = "raise"
    THEN Checked("raised", Some(changed.error), "undecided", None, None, <<>>)
    ELSE IF ~changed.b
    THEN Checked("none", None, "no",
                 Some([last_price |-> new_price, last_checked_at |-> t]), None, <<>>)
    ELSE check_product_priced(product,
                              Some([last_price |-> new_price, last_checked_at |-> t]),
                              PriceEvent(product_id, product.last_price, new_price, FALSE),
                              build_price_map(product, new_price), failing)

\* PriceMonitorService.check_product for the product with this id and row, given
\* what the scraper answers, which MoySklad codes reject an update, and the time
check_product(product_id, product, fetched, failing, t) ==
    IF ~product.enabled
    THEN Checked("none", None, "undecided", None, None, <<>>)
    ELSE IF ~fetched.ok
    THEN Checked("raised", Some(fetched.error), "undecided", None, None, <<>>)
    ELSE check_product_compared(product_id, product, fetched.price,
                                price_changed(product.last_price, fetched.price),
                                failing, t)

\* session.flush(): the INSERT of a price_events row serialises its payload,
\* {"snapshot": snapshot.__dict__}, to JSON, and json.dumps rejects a Decimal
flush_raises(pending) ==
    \E i \in 1..Len(pending) : pending[i].new_price.kind = "decimal"

\* the dictionary check_all_products appends for an event
event_dict(event) ==
    [product_id |-> event.product_id, old_price |-> event.old_price,
     new_price |-> event.new_price.mills]

\* a price_events row as committed
event_row(event) == [event EXCEPT !.new_price = Numeric(event.new_price)]

\* session.query(Product).filter_by(enabled=True)
\*     .order_by(Product.last_checked_at.nullsfirst()).limit(batch).all():
\* the rows in ascending last_checked_at, NULL first, rows with equal keys in
\* whatever order the database yields them
Ordered(rows, ids) ==
    \A i, j \in 1..Len(ids) : i < j => rows[ids[i]].last_checked_at <= rows[ids[j]].last_checked_at
Injective(ids) == \A i, j \in 1..Len(ids) : ids[i] = ids[j] => i = j
query_products(rows, limit) ==
    LET enabled == {id \in DOMAIN rows : rows[id].enabled}
        all     == {ids \in [1..Cardinality(enabled) -> enabled] :
                        Injective(ids) /\ Ordered(rows, ids)}
    IN  {SubSeq(ids, 1, Min(limit, Len(ids))) : ids \in all}

(***************************************************************************)
(* Runs of check_all_products over a small database.                       *)
(***************************************************************************)
Codes == <<"code-1", "code-2", "code-3", "code-4">>
RetailLink(id) == <<MSkladLink(Codes[id], <<"Retail">>, TRUE)>>
WithLastPrice(product, cents) == [product EXCEPT !.last_price = Some(cents)]

\* the rows a product can start as: never checked, or created by /add_category
\* with the price of the category page
ProductRows(id) ==
    { Product(TRUE, "mk4s",
              <<PricingRuleSpec("PERCENT_MARKUP", 10, "Retail", 1)>>, <<>>, RetailLink(id)),
      WithLastPrice(Product(TRUE, "mk4s", <<>>, <<>>, RetailLink(id)), 10000),
      Product(TRUE, "petrovich", <<>>, <<>>, RetailLink(id)),
      WithLastPrice(Product(TRUE, "petrovich", <<>>, <<>>, RetailLink(id)), 10000),
      Product(TRUE, "whitehills",
              <<PricingRuleSpec("MINUS_FIXED", 5, "Retail", 1)>>, <<>>, RetailLink(id)),
      Product(TRUE, "mk4s",
              <<PricingRuleSpec(UnsupportedRuleType, 0, "Retail", 1)>>, <<>>, RetailLink(id)),
      Product(FALSE, "mk4s", <<>>, <<>>, RetailLink(id)) }

\* what the competitor's page shows when it is fetched
ScrapedMills == {100000, 125000}
FetchOutcomes(parser_adapter) ==
    {Fetched(snapshot_price(parser_adapter, mills)) : mills \in ScrapedMills}
        \cup {FetchFailed("ScraperError"), FetchFailed("PriceNotFoundError")}

BatchSizes == {0, 1}

InitBatch ==
    /\ RulesIdle
    /\ ClientIdle
    /\ BotIdle
    /\ FetchIdle
    /\ ScraperIdle
    /\ ParserIdle
    /\ \E n \in 1..MaxProducts :
        \E rows \in [1..n -> UNION {ProductRows(id) : id \in 1..n}] :
            /\ \A id \in 1..n : rows[id] \in ProductRows(id)
            /\ products = rows
    /\ price_events = <<>>
    /\ session = NoSession
    /\ run = [pc |-> "idle", n |-> 0, batch |-> <<>>, i |-> 1, events |-> <<>>,
              error |-> None, outcomes |-> <<>>]
    /\ msklad = <<>>
    /\ now = 1
    /\ last_check = None

\* check_all_products(batch_size) up to the loop: open the session, query
StartRun ==
    /\ run.pc \in {"idle", "returned", "raised"}
    /\ run.n < MaxRuns
    /\ \E batch_size \in BatchSizes :
        \E batch \in query_products(products,
                        IF batch_size = 0 THEN price_check_batch_size ELSE batch_size) :
            run' = [pc |-> "loop", n |-> run.n + 1, batch |-> batch, i |-> 1,
                    events |-> <<>>, error |-> None, outcomes |-> <<>>]
    /\ session' = [active |-> TRUE, dirty |-> [id \in {} |-> None], new |-> <<>>]
    /\ UNCHANGED <<products, price_events, msklad, now, last_check>>
    /\ UNCHANGED <<rulesVars, fetchVars, scraperVars, parserVars, clientVars, botVars>>

LinkCodes(product) == {product.links[i].msklad_code : i \in 1..Len(product.links)}

Outcome(product_id, outcome, at) == [product_id |-> product_id, outcome |-> outcome, at |-> at]

\* the rest of a pass of the loop once check_product has ended: flush and
\* append when it returned an event; an exception leaves the with block through
\* session_scope, which rolls back, closes and re-raises
AfterCheck(id, product, fetched, checked) ==
    LET unsaved == IF checked.outcome = "event" THEN <<checked.event.value>> ELSE <<>>
        raised  == checked.outcome = "raised" \/ flush_raises(unsaved)
        error   == IF checked.outcome = "raised" THEN checked.error
                   ELSE Some("StatementError")
    IN  /\ msklad' = msklad \o checked.delivered
        /\ last_check' = Some([product_id |-> id, stored |-> product.last_price,
                               fetched |-> fetched, checked |-> checked])
        /\ IF raised
           THEN /\ session' = NoSession
                /\ run' = [run EXCEPT !.pc = "raised", !.error = error,
                                      !.outcomes = Append(@, Outcome(id, "raised", now))]
           ELSE /\ session' = [session EXCEPT
                        !.dirty = IF checked.assigned = None THEN @
                                  ELSE (id :> checked.assigned.value) @@ @,
                        !.new = @ \o unsaved]
                /\ run' = [run EXCEPT
                        !.i = @ + 1,
                        !.events = @ \o [k \in 1..Len(unsaved) |-> event_dict(unsaved[k])],
                        !.outcomes = Append(@, Outcome(id, checked.outcome, now))]

\* one pass of the loop of check_all_products, for whatever the scraper and
\* MoySklad answer
LoopBody ==
    /\ run.pc = "loop"
    /\ run.i <= Len(run.batch)
    /\ \E fetched \in FetchOutcomes(products[run.batch[run.i]].parser_adapter),
          failing \in SUBSET LinkCodes(products[run.batch[run.i]]) :
            AfterCheck(run.batch[run.i], products[run.batch[run.i]], fetched,
                       check_product(run.batch[run.i], products[run.batch[run.i]],
                                     fetched, failing, now))
    /\ now' = now + 1
    /\ UNCHANGED <<products, price_events>>
    /\ UNCHANGED <<rulesVars, fetchVars, scraperVars, parserVars, clientVars, botVars>>

\* the loop is over: the last flush, the commit of session_scope, return events
FinishRun ==
    /\ run.pc = "loop"
    /\ run.i > Len(run.batch)
    /\ products' = [id \in DOMAIN products |->
                        IF id \in DOMAIN session.dirty
                        THEN [products[id] EXCEPT
                                !.last_price = Some(Numeric(session.dirty[id].last_price)),
                                !.last_checked_at = session.dirty[id].last_checked_at]
                        ELSE products[id]]
    /\ price_events' = price_events \o [k \in 1..Len(session.new) |-> event_row(session.new[k])]
    /\ session' = NoSession
    /\ run' = [run EXCEPT !.pc = "returned"]
    /\ UNCHANGED <<msklad, now, last_check>>
    /\ UNCHANGED <<rulesVars, fetchVars, scraperVars, parserVars, clientVars, botVars>>

NextBatch == StartRun \/ LoopBody \/ FinishRun

SpecBatch == InitBatch /\ [][NextBatch]_vars

(***************************************************************************)
(* Claims about the batch.                                                 *)
(***************************************************************************)
RunEnded == run.pc \in {"returned", "raised"}
CheckedInRun(id) == \E k \in 1..Len(run.outcomes) : run.outcomes[k].product_id = id
\* the check of this outcome took effect: the product's row carries its time,
\* and an event it found was returned and is a row of price_events
Kept(outcome) ==
    /\ products[outcome.product_id].last_checked_at = outcome.at
    /\ outcome.outcome = "event" =>
        /\ run.pc = "returned"
        /\ \E k \in 1..Len(run.events) : run.events[k].product_id = outcome.product_id
        /\ \E k \in 1..Len(price_events) : price_events[k].product_id = outcome.product_id

\* C2: when a run of check_all_products has ended, every product of its batch
\* was checked, and every product whose own check did not fail has its new
\* last_checked_at stored and its event, if any, returned and stored: a
\* failure of one product costs only that product's update
C2_FailureOfOneProductKeepsTheOthers ==
    RunEnded =>
        /\ \A i \in 1..Len(run.batch) : CheckedInRun(run.batch[i])
        /\ \A k \in 1..Len(run.outcomes) :
            run.outcomes[k].outcome # "raised" => Kept(run.outcomes[k])

\* C4: a check_product call that got a snapshot decides whether the price
\* changed, and decides that it changed exactly when there was no stored
\* last price or the stored price is not the scraped price
C4_ChangeReportedIffPriceDiffers ==
    (last_check # None /\ last_check.value.fetched.ok) =>
        /\ last_check.value.checked.changed # "undecided"
        /\ last_check.value.checked.changed = "yes" <=>
            (\/ last_check.value.stored = None
             \/ 10 * last_check.value.stored.value # last_check.value.fetched.price.mills)

(***************************************************************************)
(* Price extraction of the adapters (scraper/parsers).  A page is what     *)
(* each strategy would find at its own place in it.                        *)
(***************************************************************************)
\* at the place a strategy looks: nothing, text or JSON that holds no number,
\* or a price in cents
Absent == [found |-> "absent"]
Junk == [found |-> "junk"]
Found(cents) == [found |-> "price", cents |-> cents]
Yields(source) == source.found = "price"

\* how fetch_product ends: a ProductSnapshot, with the strategy its price came
\* from, or an exception
Snapshot(parser_adapter, hit) ==
    [status |-> "ok", price |-> snapshot_price(parser_adapter, 10 * hit.cents),
     strategy |-> hit.strategy]
Raised(error) == [status |-> "raised", error |-> error]
Hit(strategy, cents) == [strategy |-> strategy, cents |-> cents]

\* the first of the strategies, in their order, whose source yields a price
RECURSIVE first_price(_, _)
first_price(content, strategies) ==
    IF strategies = <<>> THEN None
    ELSE IF Yields(content[strategies[1]])
         THEN Hit(strategies[1], content[strategies[1]].cents)
         ELSE first_price(content, Tail(strategies))

\* PetrovichParser._extract_price: JSON-LD product, [data-test=
\* 'product-retail-price'], meta[itemprop='price'], data-* attributes,
\* __NEXT_DATA__, inline scripts, [itemprop='offers'] [itemprop='price'],
\* [class*='price']; each strategy that finds no number falls through
PetrovichStrategies ==
    <<"jsonld", "retail_price", "meta", "data_attributes", "next_data", "scripts",
      "itemprop_offers", "class_price">>

petrovich_extract_price(hit) ==
    IF hit = None THEN Raised("PriceNotFoundError") ELSE Snapshot("petrovich", hit)

\* PetrovichParser._price_from_next_data: the payload decodes to something
\* that is no object (a list), and data.get("props") is an AttributeError
Unshaped == [found |-> "unshaped"]

\* _extract_price from __NEXT_DATA__ on, the strategies before it having
\* given hit
price_from_next_data(content, hit) ==
    IF hit # None THEN Snapshot("petrovich", hit)
    ELSE IF content.next_data = Unshaped THEN Raised("AttributeError")
    ELSE petrovich_extract_price(first_price(content, SubSeq(PetrovichStrategies, 5, 8)))

\* PetrovichParser.fetch_product; a failure of fetch_html passes through
petrovich_fetch_product(content) ==
    IF ~content.fetched THEN Raised("FetchError")
    ELSE price_from_next_data(content, first_price(content, SubSeq(PetrovichStrategies, 1, 4)))

\* whitehills _price_via_cloudscraper: a response other than 200 gives None;
\* the first of meta[itemprop=price] and span.price_value that is present is
\* returned through _norm_price, whose ValueError the outer handler turns to
\* None; then JSON-LD offers, then the ajax/price URLs of the page
price_via_cloudscraper(content) ==
    IF content.http # "ok" THEN None
    ELSE IF content.meta # Absent
    THEN (IF Yields(content.meta) THEN Hit("meta", content.meta.cents) ELSE None)
    ELSE IF content.span # Absent
    THEN (IF Yields(content.span) THEN Hit("span", content.span.cents) ELSE None)
    ELSE first_price(content, <<"jsonld", "ajax">>)

\* whitehills fetch_product in the browser: any Playwright error is caught and
\* leaves no snapshot; else the rendered DOM, else the last price seen in an
\* XHR/fetch response, else JSON-LD
price_via_playwright(content) ==
    IF content.browser # "ok" THEN None
    ELSE first_price(content, <<"dom", "network", "jsonld">>)

whitehills_rendered(hit) ==
    IF hit = None THEN Raised("ScraperError") ELSE Snapshot("whitehills", hit)

whitehills_direct(content, hit) ==
    IF hit = None THEN whitehills_rendered(price_via_playwright(content))
    ELSE Snapshot("whitehills", hit)

\* WhiteHillsParser.fetch_product, fetch_html being the class's own method
whitehills_fetch_product(content) ==
    whitehills_direct(content, price_via_cloudscraper(content))

\* ProductSnapshot.__post_init__: a negative price is a ValueError
ProductSnapshot(parser_adapter, hit) ==
    IF hit.cents < 0 THEN Raised("ValueError") ELSE Snapshot(parser_adapter, hit)

\* MK4SParser._build_snapshot_from_json: no product dict gives None; the price
\* of the chosen variant, else the product's, else the DOM's; no price gives None
build_snapshot_from_json_priced(hit) ==
    IF hit = None THEN None ELSE ProductSnapshot("mk4s", hit)

build_snapshot_from_json(content) ==
    IF ~content.product THEN None
    ELSE build_snapshot_from_json_priced(
            first_price(content, <<"variant", "product_price", "dom">>))

\* MK4SParser._build_snapshot_from_dom: _find_price_in_dom or None
build_snapshot_from_dom(content) ==
    IF Yields(content.dom) THEN ProductSnapshot("mk4s", Hit("dom", content.dom.cents))
    ELSE None

mk4s_from_dom(built) ==
    IF built = None THEN Raised("ScraperError") ELSE built

mk4s_from_json(content, built) ==
    IF built = None THEN mk4s_from_dom(build_snapshot_from_dom(content)) ELSE built

\* MK4SParser.fetch_product; a failure of fetch_html passes through
mk4s_fetch_product(content) ==
    IF ~content.fetched THEN Raised("FetchError")
    ELSE mk4s_from_json(content, build_snapshot_from_json(content))

(***************************************************************************)
(* fetch_product of each adapter over bounded pages.                       *)
(***************************************************************************)
\* the sources of a strategy: each strategy has a price of its own, so that a
\* returned price tells where it came from
Sources(cents) == {Absent, Junk, Found(cents)}

PetrovichContents ==
    [fetched : {TRUE},
     jsonld : Sources(101), retail_price : Sources(102),
     meta : Sources(103), data_attributes : Sources(104),
     next_data : {Absent, Unshaped, Found(105)}, scripts : {Absent, Found(106)},
     itemprop_offers : {Absent, Found(107)}, class_price : Sources(108)]
        \cup [fetched : {FALSE}, jsonld : {Absent}, retail_price : {Absent}, meta : {Absent},
              data_attributes : {Absent}, next_data : {Absent}, scripts : {Absent},
              itemprop_offers : {Absent}, class_price : {Absent}]

WhitehillsContents ==
    [http : {"ok", "blocked"}, browser : {"ok", "error"},
     meta : Sources(201), span : Sources(202),
     jsonld : Sources(203), ajax : {Absent, Found(204)},
     dom : Sources(205), network : {Absent, Found(206)}]

Mk4sContents ==
    [fetched : {TRUE}, product : BOOLEAN,
     variant : Sources(301) \cup {Found(-301)},
     product_price : Sources(302) \cup {Found(-302)},
     dom : Sources(303)]
        \cup [fetched : {FALSE}, product : {FALSE}, variant : {Absent},
              product_price : {Absent}, dom : {Absent}]

Page(parser_adapter, content) == [parser_adapter |-> parser_adapter, content |-> content]

InitFetch ==
    /\ RulesIdle
    /\ ClientIdle
    /\ BotIdle
    /\ BatchIdle
    /\ ScraperIdle
    /\ ParserIdle
    /\ page \in {Page("petrovich", content) : content \in PetrovichContents}
            \cup {Page("whitehills", content) : content \in WhitehillsContents}
            \cup {Page("mk4s", content) : content \in Mk4sContents}
    /\ snapshot = None

FetchPetrovich ==
    /\ snapshot = None
    /\ page.parser_adapter = "petrovich"
    /\ snapshot' = petrovich_fetch_product(page.content)
    /\ UNCHANGED <<page, rulesVars, batchVars, scraperVars, parserVars, clientVars, botVars>>

FetchWhitehills ==
    /\ snapshot = None
    /\ page.parser_adapter = "whitehills"
    /\ snapshot' = whitehills_fetch_product(page.content)
    /\ UNCHANGED <<page, rulesVars, batchVars, scraperVars, parserVars, clientVars, botVars>>

FetchMk4s ==
    /\ snapshot = None
    /\ page.parser_adapter = "mk4s"
    /\ snapshot' = mk4s_fetch_product(page.content)
    /\ UNCHANGED <<page, rulesVars, batchVars, scraperVars, parserVars, clientVars, botVars>>

NextFetch == FetchPetrovich \/ FetchWhitehills \/ FetchMk4s

SpecFetch == InitFetch /\ [][NextFetch]_vars

(***************************************************************************)
(* Claims about fetch_product.                                             *)
(***************************************************************************)
FetchEnded == snapshot # None
\* the fields of a page that are sources of a strategy
SourceFields == DOMAIN page.content \ {"fetched", "http", "browser", "product"}
PageFetched ==
    IF page.parser_adapter = "whitehills"
    THEN page.content.http = "ok" /\ page.content.browser = "ok"
    ELSE page.content.fetched
NoStrategyYields == \A field \in SourceFields : ~Yields(page.content[field])

\* C3: for every adapter, fetch_product on a page that was fetched and in
\* which no strategy finds a price ends in PriceNotFoundError
C3_NoPriceRaisesPriceNotFound ==
    (FetchEnded /\ PageFetched /\ NoStrategyYields) =>
        snapshot = Raised("PriceNotFoundError")

(***************************************************************************)
(* Concurrent calls on one ScraperService (scraper/__init__.py).  A call   *)
(* runs without interruption up to its first suspension, as coroutines do. *)
(***************************************************************************)
\* bounds of the calls
MaxCalls == 2
MaxUrls == 3
MaxConcurrency == 2

\* settings.max_concurrent_requests
max_concurrent_requests == 4

\* the adapter all calls name: one whose page fetch runs off the event loop
AdapterName == "petrovich"

\* concurrency or settings.max_concurrent_requests
semaphore_value(concurrency) ==
    IF concurrency = None THEN max_concurrent_requests ELSE concurrency.value

\* _get_parser: the instance of the adapter is created once, under the lock
get_parser(created, adapter_name) == created \cup {adapter_name}

Call(kind, concurrency, semaphore, tasks) ==
    [kind |-> kind, concurrency |-> concurrency, semaphore |-> semaphore,
     tasks |-> tasks, returned |-> FALSE]

InitScraper ==
    /\ RulesIdle
    /\ ClientIdle
    /\ BotIdle
    /\ BatchIdle
    /\ FetchIdle
    /\ ParserIdle
    /\ instances = {}
    /\ calls = <<>>
    /\ lock = None
    /\ constructed = <<>>

\* ScraperService.fetch_product: no semaphore; parser.fetch_product starts
CallFetchProduct ==
    /\ Len(calls) < MaxCalls
    /\ instances' = get_parser(instances, AdapterName)
    /\ calls' = Append(calls, Call("fetch_product", None, 0, <<"fetching">>))
    /\ UNCHANGED <<lock, constructed, rulesVars, batchVars, fetchVars, parserVars, clientVars, botVars>>

\* ScraperService.fetch_products_parallel up to gather: a semaphore of its own
\* for this call, one task per url, none of them started yet
CallFetchProductsParallel ==
    /\ Len(calls) < MaxCalls
    /\ \E n \in 1..MaxUrls, concurrency \in {None} \cup {Some(k) : k \in 1..MaxConcurrency} :
        calls' = Append(calls, Call("fetch_products_parallel", concurrency,
                                    semaphore_value(concurrency),
                                    [i \in 1..n |-> "waiting"]))
    /\ instances' = get_parser(instances, AdapterName)
    /\ UNCHANGED <<lock, constructed, rulesVars, batchVars, fetchVars, parserVars, clientVars, botVars>>

\* _fetch: async with semaphore, then parser.fetch_product starts
Acquire ==
    /\ \E c \in 1..Len(calls) : \E i \in 1..Len(calls[c].tasks) :
        /\ calls[c].tasks[i] = "waiting"
        /\ calls[c].semaphore > 0
        /\ calls' = [calls EXCEPT ![c].semaphore = @ - 1, ![c].tasks[i] = "fetching"]
    /\ UNCHANGED <<instances, lock, constructed, rulesVars, batchVars, fetchVars, parserVars, clientVars, botVars>>

\* parser.fetch_product ends, by return or exception; _fetch leaves the
\* semaphore block
FinishFetch ==
    /\ \E c \in 1..Len(calls) : \E i \in 1..Len(calls[c].tasks) :
        /\ calls[c].tasks[i] = "fetching"
        /\ calls' = [calls EXCEPT
                ![c].semaphore = IF calls[c].kind = "fetch_products_parallel" THEN @ + 1 ELSE @,
                ![c].tasks[i] = "done"]
    /\ UNCHANGED <<instances, lock, constructed, rulesVars, batchVars, fetchVars, parserVars, clientVars, botVars>>

\* the call returns once all its fetches have ended
Return ==
    /\ \E c \in 1..Len(calls) :
        /\ ~calls[c].returned
        /\ \A i \in 1..Len(calls[c].tasks) : calls[c].tasks[i] = "done"
        /\ calls' = [calls EXCEPT ![c].returned = TRUE]
    /\ UNCHANGED <<instances, lock, constructed, rulesVars, batchVars, fetchVars, parserVars, clientVars, botVars>>

NextScraper ==
    CallFetchProduct \/ CallFetchProductsParallel \/ Acquire \/ FinishFetch \/ Return

SpecScraper == InitScraper /\ [][NextScraper]_vars

(***************************************************************************)
(* Claims about the ScraperService.                                        *)
(***************************************************************************)
\* fetches running on the adapter instance
InFlight ==
    Cardinality({ci \in (1..Len(calls)) \X (1..MaxUrls) :
                    /\ ci[2] <= Len(calls[ci[1]].tasks)
                    /\ calls[ci[1]].tasks[ci[2]] = "fetching"})
\* the largest limit any call was configured with
Limits ==
    {max_concurrent_requests}
        \cup {calls[c].concurrency.value :
                c \in {k \in 1..Len(calls) : calls[k].concurrency # None}}
ConfiguredMaximum == CHOOSE m \in Limits : \A limit \in Limits : limit <= m

\* C5: the fetches in flight on an adapter instance never exceed the
\* configured maximum, however fetch_product and fetch_products_parallel
\* calls interleave
C5_InFlightWithinConfiguredMaximum == InFlight <= ConfiguredMaximum

(***************************************************************************)
(* Claims about the order of the strategies.                               *)
(***************************************************************************)
HasJsonLd == "jsonld" \in DOMAIN page.content
ReturnedFrom(strategy) == FetchEnded /\ snapshot.status = "ok" /\ snapshot.strategy = strategy

\* C11: whenever the JSON-LD block of a fetched page yields a price,
\* fetch_product returns a snapshot with exactly that price, whatever the
\* other sources of the page hold
C11_JsonLdPriceIsReturned ==
    (FetchEnded /\ PageFetched /\ HasJsonLd /\ Yields(page.content.jsonld)) =>
        /\ snapshot.status = "ok"
        /\ snapshot.price = snapshot_price(page.parser_adapter, 10 * page.content.jsonld.cents)

\* C12: a snapshot whose price came from a network response body (an XHR
\* body seen while rendering, or the body of an ajax URL of the page) is
\* returned only for a page whose JSON-LD, rendered DOM and, where the plain
\* response was read, meta tag and price span yield no price
C12_NetworkPriceOnlyAfterStatic ==
    (ReturnedFrom("network") \/ ReturnedFrom("ajax")) =>
        /\ ~Yields(page.content.jsonld)
        /\ ReturnedFrom("network") => ~Yields(page.content.dom)
        /\ page.content.http = "ok" =>
            ~Yields(page.content.meta) /\ ~Yields(page.content.span)


(***************************************************************************)
(* Claims about failures inside a strategy.                                *)
(***************************************************************************)
\* a strategy whose source holds a price a snapshot can carry
YieldsValid(source) == Yields(source) /\ source.cents >= 0

\* the sources of the strategies the adapter has for the page: an MK4S page
\* without a product object has the DOM strategy alone
BatteryFields ==
    IF page.parser_adapter = "mk4s" /\ ~page.content.product THEN {"dom"}
    ELSE SourceFields

\* C13: fetch_product on a fetched page ends in an error only when no strategy
\* of the adapter yields a price: a strategy that fails (nothing matched, a
\* value that does not parse, JSON of another shape) leaves the later ones
\* their turn
C13_ErrorOnlyWhenNoStrategyYields ==
    (FetchEnded /\ PageFetched /\ snapshot.status = "raised") =>
        \A field \in BatteryFields : ~YieldsValid(page.content[field])


(***************************************************************************)
(* fetch_category of each adapter: a listing is the cards of a category    *)
(* page, each card what the adapter's selectors find in it.                *)
(***************************************************************************)
\* bound of the listing
MaxCards == 2

\* what one card comes to: a snapshot, nothing (continue), or an exception
Skipped == [status |-> "skipped"]
Item(parser_adapter, cents) ==
    [status |-> "ok", price |-> snapshot_price(parser_adapter, 10 * cents)]

\* petrovich and whitehills: a card without link or price node is skipped;
\* normalize_price of the node's text, whose ValueError skips the card
card_normalized(parser_adapter, card) ==
    IF ~card.link \/ card.node = Absent THEN Skipped
    ELSE IF card.node = Junk THEN Skipped
    ELSE Item(parser_adapter, card.node.cents)

\* mk4s: price of the data-product JSON, `price or priceValue`; an attribute
\* that is no JSON leaves it None
data_product_price(card) ==
    IF card.data = "json" /\ card.json_price # Absent /\ card.json_price # Found(0)
    THEN card.json_price
    ELSE Absent

\* mk4s: ProductSnapshot(price=float(price)): float() of a string that is no
\* number and a negative price are both ValueError
mk4s_item(card, price) ==
    IF price = Absent \/ price = Found(0) \/ ~card.link THEN Skipped
    ELSE IF price = Junk THEN Raised("ValueError")
    ELSE IF price.cents < 0 THEN Raised("ValueError")
    ELSE Item("mk4s", price.cents)

\* mk4s: one container: no data-product attribute continues; without a JSON
\* price, extract_number of the price node, whose ScraperError is not caught
mk4s_container(card, price) ==
    IF card.data = "none" THEN Skipped
    ELSE IF price # Absent THEN mk4s_item(card, price)
    ELSE IF card.node = Junk THEN Raised("ScraperError")
    ELSE mk4s_item(card, card.node)

card_snapshot(parser_adapter, card) ==
    IF parser_adapter = "mk4s" THEN mk4s_container(card, data_product_price(card))
    ELSE card_normalized(parser_adapter, card)

\* the loop over the cards: items collected so far; an exception ends the call
Listed(items) == [status |-> "ok", items |-> items]

category_step(listed, made) ==
    IF listed.status # "ok" THEN listed
    ELSE IF made = Skipped THEN listed
    ELSE IF made.status = "raised" THEN made
    ELSE Listed(Append(listed.items, made))

RECURSIVE category_loop(_, _, _)
category_loop(parser_adapter, cards, listed) ==
    IF cards = <<>> THEN listed
    ELSE category_loop(parser_adapter, Tail(cards),
                       category_step(listed, card_snapshot(parser_adapter, Head(cards))))

\* fetch_category; a failure of fetch_html passes through
fetch_category(parser_adapter, listing) ==
    IF ~listing.fetched THEN Raised("FetchError")
    ELSE category_loop(parser_adapter, listing.cards, Listed(<<>>))

PlainCards == [link : BOOLEAN, node : Sources(401)]
Mk4sCards ==
    [data : {"json"}, json_price : Sources(402) \cup {Found(0), Found(-402)},
     node : Sources(403), link : BOOLEAN]
        \cup [data : {"text"}, json_price : {Absent}, node : Sources(403), link : BOOLEAN]
        \cup [data : {"none"}, json_price : {Absent}, node : {Absent}, link : {TRUE}]

Listing(fetched, cards) == [fetched |-> fetched, cards |-> cards]
Listings(cards) == {Listing(TRUE, listing) : listing \in SeqsUpTo(cards, MaxCards)}
                       \cup {Listing(FALSE, <<>>)}

CategoryCall(parser_adapter, listing) ==
    [function |-> "fetch_category", parser_adapter |-> parser_adapter, listing |-> listing]

InitCategory ==
    /\ RulesIdle
    /\ ClientIdle
    /\ BotIdle
    /\ BatchIdle
    /\ FetchIdle
    /\ ScraperIdle
    /\ args \in {CategoryCall("petrovich", listing) : listing \in Listings(PlainCards)}
            \cup {CategoryCall("whitehills", listing) : listing \in Listings(PlainCards)}
            \cup {CategoryCall("mk4s", listing) : listing \in Listings(Mk4sCards)}
    /\ ret = None

CategoryPetrovich ==
    /\ ret = None
    /\ args.parser_adapter = "petrovich"
    /\ ret' = fetch_category("petrovich", args.listing)
    /\ UNCHANGED <<args, rulesVars, batchVars, fetchVars, scraperVars, clientVars, botVars>>

CategoryWhitehills ==
    /\ ret = None
    /\ args.parser_adapter = "whitehills"
    /\ ret' = fetch_category("whitehills", args.listing)
    /\ UNCHANGED <<args, rulesVars, batchVars, fetchVars, scraperVars, clientVars, botVars>>

CategoryMk4s ==
    /\ ret = None
    /\ args.parser_adapter = "mk4s"
    /\ ret' = fetch_category("mk4s", args.listing)
    /\ UNCHANGED <<args, rulesVars, batchVars, fetchVars, scraperVars, clientVars, botVars>>

NextCategory == CategoryPetrovich \/ CategoryWhitehills \/ CategoryMk4s

SpecCategory == InitCategory /\ [][NextCategory]_vars

(***************************************************************************)
(* Claims about fetch_category.                                            *)
(***************************************************************************)
CategoryEnded == ret # None /\ args.listing.fetched
\* the snapshots of the cards that give one, in the order of the page
RECURSIVE Recovered(_, _)
Recovered(parser_adapter, cards) ==
    IF cards = <<>> THEN <<>>
    ELSE IF card_snapshot(parser_adapter, Head(cards)).status = "ok"
         THEN <<card_snapshot(parser_adapter, Head(cards))>>
                  \o Recovered(parser_adapter, Tail(cards))
         ELSE Recovered(parser_adapter, Tail(cards))

\* C14: fetch_category on a fetched listing returns, whatever its cards hold,
\* the snapshots of the cards whose price and link are recovered
C14_CategoryNeverFailsOnOneItem ==
    CategoryEnded =>
        ret = Listed(Recovered(args.parser_adapter, args.listing.cards))


(***************************************************************************)
(* Choice among price candidates (petrovich.py).  A text is a sequence of  *)
(* pieces, each a run of characters: digits, a space, the currency sign,   *)
(* a phrase that holds a context hint, or characters that hold none.       *)
(***************************************************************************)
\* characters of context taken on each side of a match
ContextWidth == 40

\* the number of decimal digits of a natural number
RECURSIVE Digits(_)
Digits(n) == IF n < 10 THEN 1 ELSE 1 + Digits(n \div 10)

RECURSIVE Pow10(_)
Pow10(n) == IF n = 0 THEN 1 ELSE 10 * Pow10(n - 1)

DigitsPiece(value) == [kind |-> "digits", value |-> value, len |-> Digits(value)]
SpacePiece == [kind |-> "space", len |-> 1]
CurrencyPiece == [kind |-> "currency", len |-> 1]
FillerPiece(len) == [kind |-> "filler", len |-> len]
\* "по карте", "обычная цена", "скидка"
CardPhrase == [kind |-> "card", len |-> 8]
RegularPhrase == [kind |-> "regular", len |-> 12]
DiscountPhrase == [kind |-> "discount", len |-> 6]

\* where in its phrase the shortest hint of a list lies: "карте" of
\* CARD_CONTEXT_HINTS, "обыч" of REGULAR_CONTEXT_HINTS, "скид" of
\* NEGATIVE_CONTEXT_HINTS
HintSpan(kind) ==
    IF kind = "card" THEN [from |-> 3, to |-> 8]
    ELSE IF kind = "regular" THEN [from |-> 0, to |-> 4]
    ELSE [from |-> 0, to |-> 4]

\* the offset of piece i of a text, and the length of the text
RECURSIVE Offset(_, _)
Offset(text, i) == IF i = 1 THEN 0 ELSE Offset(text, i - 1) + text[i - 1].len
TextLen(text) == Offset(text, Len(text) + 1)

\* PRICE_TEXT_PATTERN \d[\d\s.,]*: a match begins at digits that continue no
\* match and runs over the digits and spaces that follow
RECURSIVE InMatch(_, _)
InMatch(text, i) ==
    \/ text[i].kind = "digits"
    \/ text[i].kind = "space" /\ i > 1 /\ InMatch(text, i - 1)
MatchBegins(text, i) ==
    text[i].kind = "digits" /\ (i = 1 \/ ~InMatch(text, i - 1))
RECURSIVE MatchLast(_, _)
MatchLast(text, i) ==
    IF i < Len(text) /\ text[i + 1].kind \in {"digits", "space"}
    THEN MatchLast(text, i + 1)
    ELSE i

\* _parse_decimal_value of a match: the spaces go, the digits are one number
RECURSIVE parse_decimal_value(_, _, _)
parse_decimal_value(text, i, last) ==
    IF i > last THEN 0
    ELSE IF text[last].kind = "digits"
         THEN parse_decimal_value(text, i, last - 1) * Pow10(text[last].len) + text[last].value
         ELSE parse_decimal_value(text, i, last - 1)

\* context_slice of the match that begins at piece i
context_start(text, i) == Max(0, Offset(text, i) - ContextWidth)
context_end(text, i) ==
    Min(TextLen(text), Offset(text, MatchLast(text, i) + 1) + ContextWidth)

\* `hint in context_lower` for the hints of a kind
hint_in_context(text, i, kind) ==
    \E k \in 1..Len(text) :
        /\ text[k].kind = kind
        /\ Offset(text, k) + HintSpan(kind).from >= context_start(text, i)
        /\ Offset(text, k) + HintSpan(kind).to <= context_end(text, i)

currency_in_context(text, i) ==
    \E k \in 1..Len(text) :
        /\ text[k].kind = "currency"
        /\ Offset(text, k) >= context_start(text, i)
        /\ Offset(text, k) + 1 <= context_end(text, i)

\* the priority of a match: regular hints before card hints, one worse for a
\* negative hint
context_priority(text, i, prefer_regular) ==
    (IF ~prefer_regular THEN 1
     ELSE IF hint_in_context(text, i, "regular") THEN 0
     ELSE IF hint_in_context(text, i, "card") THEN 3
     ELSE 1)
    + (IF hint_in_context(text, i, "discount") THEN 1 ELSE 0)

currency_bonus(text, i) == IF currency_in_context(text, i) THEN -1 ELSE 0

\* matches.sort(): tuples (priority, currency_bonus, match.start(), price)
match_before(text, prefer_regular, i, j) ==
    \/ context_priority(text, i, prefer_regular) < context_priority(text, j, prefer_regular)
    \/ /\ context_priority(text, i, prefer_regular) = context_priority(text, j, prefer_regular)
       /\ \/ currency_bonus(text, i) < currency_bonus(text, j)
          \/ currency_bonus(text, i) = currency_bonus(text, j) /\ i <= j

Matches(text) == {i \in 1..Len(text) : MatchBegins(text, i)}

\* _extract_price_from_text: the price of the first match after the sort, or
\* None without a match
extract_price_from_text(text, prefer_regular) ==
    IF Matches(text) = {} THEN None
    ELSE LET first == CHOOSE i \in Matches(text) :
                          \A j \in Matches(text) : match_before(text, prefer_regular, i, j)
         IN Some(parse_decimal_value(text, first, MatchLast(text, first)))


(***************************************************************************)
(* Candidates of a decoded JSON value (petrovich.py): the value is the     *)
(* leaves _iter_price_value_paths walks, each under its path of keys.      *)
(***************************************************************************)
\* the keys of the modelled documents, in the order of Python's strings
PathKeys ==
    <<"card", "cardPrice", "currentPrice", "name", "oldPrice", "price",
      "priceWithoutCard", "prices", "regular", "regularPrice">>
KeyRank(key) == CHOOSE i \in 1..Len(PathKeys) : PathKeys[i] = key

\* which lists of hints have a member inside the lowered key:
\* PRICE_PATH_KEYWORDS, CARD_EXCLUSION_HINTS, CARD_PATH_HINTS,
\* REGULAR_PATH_HINTS, "current", NEGATIVE_PATH_HINTS
KeyHints(key) ==
    CASE key = "card" -> {"card"}
      [] key = "cardPrice" -> {"keyword", "card"}
      [] key = "currentPrice" -> {"keyword", "current"}
      [] key = "name" -> {}
      [] key = "oldPrice" -> {"keyword", "negative"}
      [] key = "price" -> {"keyword"}
      [] key = "priceWithoutCard" -> {"keyword", "exclusion", "card", "regular"}
      [] key = "prices" -> {"keyword"}
      [] key = "regular" -> {"regular"}
      [] key = "regularPrice" -> {"keyword", "regular"}

path_has(path, hint) == \E i \in 1..Len(path) : hint \in KeyHints(path[i])

\* _score_price_path; None for a path without a price keyword
score_price_path_base(path, prefer_regular) ==
    IF path_has(path, "regular") \/ path_has(path, "exclusion") THEN 0
    ELSE IF path_has(path, "current") THEN 1
    ELSE IF prefer_regular THEN 4 ELSE 3

score_price_path(path, prefer_regular) ==
    IF path = <<>> \/ ~path_has(path, "keyword") THEN None
    ELSE Some(Max(0,
            score_price_path_base(path, prefer_regular)
            + (IF path_has(path, "negative") THEN 1 ELSE 0)
            + (IF path_has(path, "card") /\ ~path_has(path, "exclusion")
               THEN (IF prefer_regular THEN 2 ELSE 1) ELSE 0)))

Leaf(path, value) == [path |-> path, value |-> value]
Candidate(score, path, price) == [score |-> score, path |-> path, price |-> price]

\* ".".join(path) compared as Python compares strings
RECURSIVE label_leq(_, _)
label_leq(a, b) ==
    IF a = <<>> THEN TRUE
    ELSE IF b = <<>> THEN FALSE
    ELSE IF a[1] = b[1] THEN label_leq(Tail(a), Tail(b))
    ELSE KeyRank(a[1]) < KeyRank(b[1])

\* the sort key (score, len(path), label)
candidate_leq(a, b) ==
    \/ a.score < b.score
    \/ /\ a.score = b.score
       /\ \/ Len(a.path) < Len(b.path)
          \/ Len(a.path) = Len(b.path) /\ label_leq(a.path, b.path)

RECURSIVE insert_candidate(_, _)
insert_candidate(sorted, candidate) ==
    IF sorted = <<>> THEN <<candidate>>
    ELSE IF candidate_leq(sorted[1], candidate)
         THEN <<sorted[1]>> \o insert_candidate(Tail(sorted), candidate)
         ELSE <<candidate>> \o sorted

\* one leaf: a value without a number or a path without score gives no candidate
add_candidate(sorted, leaf, score) ==
    IF ~Yields(leaf.value) \/ score = None THEN sorted
    ELSE insert_candidate(sorted, Candidate(score.value, leaf.path, leaf.value.cents))

\* _collect_price_candidates: the candidates, sorted
RECURSIVE collect_price_candidates_from(_, _, _)
collect_price_candidates_from(sorted, leaves, prefer_regular) ==
    IF leaves = <<>> THEN sorted
    ELSE collect_price_candidates_from(
            add_candidate(sorted, Head(leaves),
                          score_price_path(Head(leaves).path, prefer_regular)),
            Tail(leaves), prefer_regular)

collect_price_candidates(leaves, prefer_regular) ==
    collect_price_candidates_from(<<>>, leaves, prefer_regular)


(***************************************************************************)
(* The two choices over bounded texts and documents.                       *)
(***************************************************************************)
\* the filler between two candidates of a text, and their prices
NearGap == 1
MidGap == 45
FarGap == 90
CardRubles == 90
RegularRubles == 100

Phrase(kind) == IF kind = "card" THEN CardPhrase ELSE RegularPhrase

\* a price with its phrase before or behind it, with or without the sign
Tagged(kind, value, phrase_first, sign) ==
    IF phrase_first
    THEN <<Phrase(kind), SpacePiece, DigitsPiece(value)>>
             \o (IF sign THEN <<SpacePiece, CurrencyPiece>> ELSE <<>>)
    ELSE <<DigitsPiece(value)>>
             \o (IF sign THEN <<SpacePiece, CurrencyPiece>> ELSE <<>>)
             \o <<SpacePiece, Phrase(kind)>>

CardTagged == {Tagged("card", CardRubles, phrase_first, sign) :
                   phrase_first \in BOOLEAN, sign \in BOOLEAN}
RegularTagged == {Tagged("regular", RegularRubles, phrase_first, sign) :
                      phrase_first \in BOOLEAN, sign \in BOOLEAN}
Gaps == {<<FillerPiece(NearGap)>>, <<FillerPiece(MidGap)>>, <<FillerPiece(FarGap)>>,
         <<FillerPiece(NearGap), DiscountPhrase, FillerPiece(NearGap)>>}

\* a card price and a regular price, in either order
TwoTaggedTexts ==
    {card \o gap \o regular : card \in CardTagged, gap \in Gaps, regular \in RegularTagged}
        \cup {regular \o gap \o card :
                  card \in CardTagged, gap \in Gaps, regular \in RegularTagged}
Texts ==
    TwoTaggedTexts \cup CardTagged \cup RegularTagged
        \cup {<<>>, <<FillerPiece(NearGap)>>,
              <<DigitsPiece(CardRubles), SpacePiece, DigitsPiece(RegularRubles)>>}

LeafPaths ==
    {<<"cardPrice">>, <<"regularPrice">>, <<"currentPrice">>, <<"oldPrice">>,
     <<"price">>, <<"priceWithoutCard">>, <<"name">>,
     <<"prices", "card">>, <<"prices", "regular">>, <<"price", "card", "currentPrice">>}
Leaves == {Leaf(path, value) : path \in LeafPaths,
                               value \in {Junk, Found(9000), Found(10000)}}
MaxLeaves == 2
Documents == SeqsUpTo(Leaves, MaxLeaves)

TextCall(text, prefer_regular) ==
    [function |-> "_extract_price_from_text", text |-> text,
     prefer_regular |-> prefer_regular]
CandidatesCall(data, prefer_regular) ==
    [function |-> "_collect_price_candidates", data |-> data,
     prefer_regular |-> prefer_regular]

InitCandidates ==
    /\ RulesIdle
    /\ ClientIdle
    /\ BotIdle
    /\ BatchIdle
    /\ FetchIdle
    /\ ScraperIdle
    /\ args \in {TextCall(text, prefer_regular) :
                     text \in Texts, prefer_regular \in BOOLEAN}
            \cup {CandidatesCall(data, prefer_regular) :
                      data \in Documents, prefer_regular \in BOOLEAN}
    /\ ret = None

ExtractPriceFromText ==
    /\ ret = None
    /\ args.function = "_extract_price_from_text"
    /\ ret' = [returned |-> extract_price_from_text(args.text, args.prefer_regular)]
    /\ UNCHANGED <<args, rulesVars, batchVars, fetchVars, scraperVars, clientVars, botVars>>

CollectPriceCandidates ==
    /\ ret = None
    /\ args.function = "_collect_price_candidates"
    /\ ret' = [returned |-> collect_price_candidates(args.data, args.prefer_regular)]
    /\ UNCHANGED <<args, rulesVars, batchVars, fetchVars, scraperVars, clientVars, botVars>>

NextCandidates == ExtractPriceFromText \/ CollectPriceCandidates

SpecCandidates == InitCandidates /\ [][NextCandidates]_vars

(***************************************************************************)
(* Claims about the choice among candidates.                               *)
(***************************************************************************)
TextChosen ==
    ret # None /\ args.function = "_extract_price_from_text" /\ args.prefer_regular
CandidatesChosen ==
    ret # None /\ args.function = "_collect_price_candidates" /\ args.prefer_regular
\* the leaves of a document whose path names the card price, the regular price
CardLeaves(data) ==
    {i \in 1..Len(data) : /\ Yields(data[i].value)
                          /\ path_has(data[i].path, "keyword")
                          /\ path_has(data[i].path, "card")
                          /\ ~path_has(data[i].path, "regular")}
RegularLeaves(data) ==
    {i \in 1..Len(data) : /\ Yields(data[i].value)
                          /\ path_has(data[i].path, "keyword")
                          /\ path_has(data[i].path, "regular")}

\* C15: of a card price and a regular price found in one text, or under two
\* keys of one document, the regular price is chosen, whichever comes first
\* and however far apart they are
C15_RegularPriceChosen ==
    /\ (TextChosen /\ args.text \in TwoTaggedTexts) =>
           ret.returned = Some(RegularRubles)
    /\ (CandidatesChosen /\ CardLeaves(args.data) # {} /\ RegularLeaves(args.data) # {}
            /\ Len(args.data) = 2) =>
           /\ ret.returned # <<>>
           /\ \E i \in RegularLeaves(args.data) :
                  ret.returned[1].price = args.data[i].value.cents


(***************************************************************************)
(* MK4S variant selection (mk4s.py).  A string is its words in order, a    *)
(* variant key its parts, joined by "|" in the program.                    *)
(***************************************************************************)
\* str.lower() on the words of the modelled pages
Lower(word) ==
    CASE word = "Grey" -> "grey"
      [] word = "Light" -> "light"
      [] word = "Red" -> "red"
      [] word = "Color" -> "color"
      [] word = "Size" -> "size"
      [] word = "S" -> "s"
      [] word = "M" -> "m"
      [] OTHER -> word

\* _normalize_string of one string, and of a key: lowered, part by part
normalize_string(words) == [i \in 1..Len(words) |-> Lower(words[i])]
normalize_key(parts) == [i \in 1..Len(parts) |-> normalize_string(parts[i])]

\* _normalize_tokens: the lowered words, split at "|" as at spaces
normalize_tokens(words) == {Lower(words[i]) : i \in 1..Len(words)}
key_tokens(parts) == UNION {normalize_tokens(parts[i]) : i \in 1..Len(parts)}

\* a combination: for each block, in order, its name and one of its values
Choice(name, value) == [name |-> name, value |-> value]

\* _tokens_for_combo: the tokens of the names and of the values
tokens_for_combo(combo) ==
    UNION {normalize_tokens(combo[i].name) \cup normalize_tokens(combo[i].value) :
               i \in 1..Len(combo)}

\* build_variant_key(combo.values())
build_variant_key(combo) == [i \in 1..Len(combo) |-> combo[i].value]

\* _build_variant_combinations: itertools.product, the last block running
\* fastest
RECURSIVE build_variant_combinations(_)
build_variant_combinations(blocks) ==
    IF blocks = <<>> THEN <<>>
    ELSE IF Len(blocks) = 1
    THEN [i \in 1..Len(blocks[1].values) |->
              <<Choice(blocks[1].name, blocks[1].values[i])>>]
    ELSE LET rest == build_variant_combinations(Tail(blocks))
         IN [k \in 1..(Len(blocks[1].values) * Len(rest)) |->
                 <<Choice(blocks[1].name,
                          blocks[1].values[((k - 1) \div Len(rest)) + 1])>>
                     \o rest[((k - 1) % Len(rest)) + 1]]

Selected(combo, matched) ==
    [combo |-> combo, key |-> build_variant_key(combo), matched |-> matched]

\* the loop of _select_dom_variant: the first combination, in order, whose
\* tokens hold all tokens of the variant or whose normalized key equals it
RECURSIVE select_dom_variant_from(_, _, _)
select_dom_variant_from(combos, i, variant) ==
    IF i > Len(combos) THEN Selected(combos[1], FALSE)
    ELSE IF key_tokens(variant) # {} /\ key_tokens(variant) \subseteq tokens_for_combo(combos[i])
    THEN Selected(combos[i], TRUE)
    ELSE IF normalize_key(build_variant_key(combos[i])) = normalize_key(variant)
    THEN Selected(combos[i], TRUE)
    ELSE select_dom_variant_from(combos, i + 1, variant)

\* _select_dom_variant; without a variant the first combination, unmatched
select_dom_variant(combos, variant) ==
    IF variant = None THEN Selected(combos[1], FALSE)
    ELSE select_dom_variant_from(combos, 1, variant.value)

\* _build_snapshot_from_json, lines 76-86: the variant whose name is the
\* requested string, else the first one; the key stays the requested one
Chosen(name, variant_key, matched) ==
    [chosen |-> name, variant_key |-> variant_key, matched |-> matched]
json_variant(names, variant) ==
    IF variant # None /\ \E i \in 1..Len(names) : names[i] = variant.value
    THEN Chosen(Some(variant.value), variant, TRUE)
    ELSE IF names # <<>>
    THEN Chosen(Some(names[1]), IF variant = None THEN Some(names[1]) ELSE variant, FALSE)
    ELSE Chosen(None, variant, FALSE)


\* bounds of the pages: values of a block, names of a variants map
MaxValues == 2
MaxNames == 2

ColorValues == {<<"Grey">>, <<"grey">>, <<"Light", "Grey">>, <<"Red">>}
SizeValues == {<<"S">>, <<"M">>}
\* the values of a block, each once (the page's duplicates are dropped)
ValueLists(values) ==
    {list \in SeqsUpTo(values, MaxValues) : list # <<>> /\ Injective(list)}
Block(name, values) == [name |-> name, values |-> values]
BlockLists ==
    {<<Block(<<"Color">>, colors)>> : colors \in ValueLists(ColorValues)}
        \cup {<<Block(<<"Color">>, colors), Block(<<"Size">>, sizes)>> :
                  colors \in ValueLists(ColorValues), sizes \in ValueLists(SizeValues)}
\* the requested variant: none, one part, or a colour and a size
Keys == {<<color>> : color \in ColorValues}
            \cup {<<color, size>> : color \in ColorValues, size \in SizeValues}
Variants == {None} \cup {Some(key) : key \in Keys}
NameLists == {names \in SeqsUpTo(Keys, MaxNames) : Injective(names)}

DomVariantCall(blocks, variant) ==
    [function |-> "_select_dom_variant", blocks |-> blocks, variant |-> variant]
JsonVariantCall(names, variant) ==
    [function |-> "_build_snapshot_from_json", names |-> names, variant |-> variant]

InitVariant ==
    /\ RulesIdle
    /\ ClientIdle
    /\ BotIdle
    /\ BatchIdle
    /\ FetchIdle
    /\ ScraperIdle
    /\ args \in {DomVariantCall(blocks, variant) :
                     blocks \in BlockLists, variant \in Variants}
            \cup {JsonVariantCall(names, variant) :
                      names \in NameLists, variant \in Variants}
    /\ ret = None

SelectDomVariant ==
    /\ ret = None
    /\ args.function = "_select_dom_variant"
    /\ ret' = select_dom_variant(build_variant_combinations(args.blocks), args.variant)
    /\ UNCHANGED <<args, rulesVars, batchVars, fetchVars, scraperVars, clientVars, botVars>>

SelectJsonVariant ==
    /\ ret = None
    /\ args.function = "_build_snapshot_from_json"
    /\ ret' = json_variant(args.names, args.variant)
    /\ UNCHANGED <<args, rulesVars, batchVars, fetchVars, scraperVars, clientVars, botVars>>

NextVariant == SelectDomVariant \/ SelectJsonVariant

SpecVariant == InitVariant /\ [][NextVariant]_vars

(***************************************************************************)
(* Claims about variant selection.                                         *)
(***************************************************************************)
DomSelected == ret # None /\ args.function = "_select_dom_variant"
JsonSelected == ret # None /\ args.function = "_build_snapshot_from_json"
\* the combinations of the page whose key is the requested one
ExactCombos ==
    {combo \in Range(build_variant_combinations(args.blocks)) :
         normalize_key(build_variant_key(combo)) = normalize_key(args.variant.value)}

\* C16: with a variant requested, a combination (a named variant) whose key is
\* the requested one is selected whenever there is one; with none requested,
\* the first one is selected
C16_ExactMatchBeforeTokenMatch ==
    /\ (DomSelected /\ args.variant # None /\ ExactCombos # {}) =>
           ret.combo \in ExactCombos
    /\ (DomSelected /\ args.variant = None) =>
           ret.combo = build_variant_combinations(args.blocks)[1]
    /\ (JsonSelected /\ args.variant # None /\ args.variant.value \in Range(args.names)) =>
           ret.chosen = Some(args.variant.value)
    /\ (JsonSelected /\ args.variant = None /\ args.names # <<>>) =>
           ret.chosen = Some(args.names[1])


(***************************************************************************)
(* Price normalizers (base.py, whitehills.py, petrovich.py).  A text is    *)
(* its characters; "nbsp" stands for U+00A0, "rouble" for the rouble sign, *)
(* and "r", "u", "b" for the three Cyrillic letters of the abbreviation.   *)
(***************************************************************************)
DigitChars == <<"0", "1", "2", "3", "4", "5", "6", "7", "8", "9">>
IsDigit(c) == c \in Range(DigitChars)
DigitValue(c) == (CHOOSE i \in 1..Len(DigitChars) : DigitChars[i] = c) - 1
\* the characters \s matches
IsSpace(c) == c \in {" ", "nbsp"}
IsSeparator(c) == c \in {".", ","}

\* decimal.Decimal: coefficient and exponent, as the constructor keeps them
Dec(coef, exp) == [status |-> "ok", coef |-> coef, exp |-> exp]

\* int(digits), leading zeros allowed; 0 for no digit
RECURSIVE NatOf(_)
NatOf(digits) ==
    IF digits = <<>> THEN 0
    ELSE NatOf(SubSeq(digits, 1, Len(digits) - 1)) * 10 + DigitValue(digits[Len(digits)])

\* the place of the first character of a kind, 0 for none
Least(places) ==
    IF places = {} THEN 0 ELSE CHOOSE i \in places : \A j \in places : i <= j
Greatest(places) ==
    IF places = {} THEN 0 ELSE CHOOSE i \in places : \A j \in places : i >= j
DigitPlaces(chars) == {i \in 1..Len(chars) : IsDigit(chars[i])}
DotPlaces(chars) == {i \in 1..Len(chars) : chars[i] = "."}

\* the end of the run of digits that begins at i (i - 1 for none)
RECURSIVE DigitsEnd(_, _)
DigitsEnd(chars, i) ==
    IF i <= Len(chars) /\ IsDigit(chars[i]) THEN DigitsEnd(chars, i + 1) ELSE i - 1

\* Decimal(s) for s of digits with at most one dot: "12", "12.5", "12.", ".5";
\* anything else is InvalidOperation
IsDot(c) == c = "."
DecimalOfSplit(chars, dot) ==
    IF dot = 0 THEN Dec(NatOf(chars), 0)
    ELSE Dec(NatOf(SubSeq(chars, 1, dot - 1) \o SubSeq(chars, dot + 1, Len(chars))),
             dot - Len(chars))
DecimalOf(chars) ==
    IF \/ SelectSeq(chars, IsDigit) = <<>>
       \/ Len(SelectSeq(chars, IsDot)) > 1
       \/ \E i \in 1..Len(chars) : ~IsDigit(chars[i]) /\ ~IsDot(chars[i])
    THEN Raised("InvalidOperation")
    ELSE DecimalOfSplit(chars, Least(DotPlaces(chars)))

\* .replace(",", ".")
CommaToDot(chars) == [i \in 1..Len(chars) |-> IF chars[i] = "," THEN "." ELSE chars[i]]

\* the end of the match of \d+(?:\.\d{1,max_fraction})? that begins at the
\* digit at i; max_fraction 0 stands for \d+ without limit
FractionEnd(chars, dot, max_fraction) ==
    IF max_fraction = 0 THEN DigitsEnd(chars, dot + 1)
    ELSE Min(DigitsEnd(chars, dot + 1), dot + max_fraction)
NumberEndAfter(chars, last, max_fraction) ==
    IF last + 1 < Len(chars) /\ chars[last + 1] = "." /\ IsDigit(chars[last + 2])
    THEN FractionEnd(chars, last + 1, max_fraction)
    ELSE last
NumberEnd(chars, i, max_fraction) == NumberEndAfter(chars, DigitsEnd(chars, i), max_fraction)

\* re.search of that pattern, as a Decimal; ValueError without a digit
SearchNumberFrom(chars, first, max_fraction) ==
    IF first = 0 THEN Raised("ValueError")
    ELSE DecimalOf(SubSeq(chars, first, NumberEnd(chars, first, max_fraction)))
SearchNumber(chars, max_fraction) ==
    SearchNumberFrom(chars, Least(DigitPlaces(chars)), max_fraction)

\* base.to_decimal: all but spaces, digits, dot and comma goes, then the
\* spaces; comma becomes dot; the whole as ^\d+(?:\.\d{1,2})?$, else the first
\* match of \d+(?:\.\d{1,2})?
KeptByToDecimal(c) == IsSpace(c) \/ IsDigit(c) \/ IsSeparator(c)
NotSpace(c) == ~IsSpace(c)
\* a cleaning that takes the separators for noise as well
to_decimal_cleaned_without_separators(text) == SelectSeq(text, IsDigit)
to_decimal_cleaned(text) ==
    CommaToDot(SelectSeq(SelectSeq(text, KeptByToDecimal), NotSpace))
to_decimal_matched(cleaned) ==
    IF cleaned # <<>> /\ IsDigit(cleaned[1]) /\ NumberEnd(cleaned, 1, 2) = Len(cleaned)
    THEN DecimalOf(cleaned)
    ELSE SearchNumber(cleaned, 2)
to_decimal(text) == to_decimal_matched(to_decimal_cleaned(text))

\* Decimal.quantize(Decimal("0.01"), rounding=ROUND_HALF_UP)
quantize_rounded(coef, unit) ==
    Dec((coef \div unit) + (IF 2 * (coef % unit) >= unit THEN 1 ELSE 0), -2)
quantize(decimal) ==
    IF decimal.exp >= -2 THEN Dec(decimal.coef * Pow10(decimal.exp + 2), -2)
    ELSE quantize_rounded(decimal.coef, Pow10(-2 - decimal.exp))

\* str(n) of a natural number
RECURSIVE DigitsOf(_)
DigitsOf(n) ==
    IF n < 10 THEN <<DigitChars[n + 1]>>
    ELSE DigitsOf(n \div 10) \o <<DigitChars[(n % 10) + 1]>>

\* str(Decimal) for an exponent that is not positive: the digits of the
\* coefficient, with zeros in front as far as the point needs them
RECURSIVE ZeroPadded(_, _)
ZeroPadded(digits, len) ==
    IF Len(digits) >= len THEN digits ELSE ZeroPadded(<<"0">> \o digits, len)
str_decimal_pointed(digits, places) ==
    SubSeq(digits, 1, Len(digits) - places) \o <<".">>
        \o SubSeq(digits, Len(digits) - places + 1, Len(digits))
str_decimal(decimal) ==
    IF decimal.exp = 0 THEN DigitsOf(decimal.coef)
    ELSE str_decimal_pointed(ZeroPadded(DigitsOf(decimal.coef), 1 - decimal.exp),
                             -decimal.exp)

\* BaseParser.normalize_price of a string
normalize_price_quantized(decimal) ==
    IF decimal.status # "ok" THEN Raised("ValueError") ELSE quantize(decimal)
normalize_price(text) == normalize_price_quantized(to_decimal(text))

\* whitehills _norm_price: (руб\.?|₽|р\.) goes, then the spaces; comma
\* becomes dot; the first match of \d+(?:\.\d+)?
RECURSIVE strip_currency(_)
strip_currency(chars) ==
    IF chars = <<>> THEN <<>>
    ELSE IF Len(chars) >= 4 /\ SubSeq(chars, 1, 4) = <<"r", "u", "b", ".">>
    THEN strip_currency(SubSeq(chars, 5, Len(chars)))
    ELSE IF Len(chars) >= 3 /\ SubSeq(chars, 1, 3) = <<"r", "u", "b">>
    THEN strip_currency(SubSeq(chars, 4, Len(chars)))
    ELSE IF chars[1] = "rouble" THEN strip_currency(Tail(chars))
    ELSE IF Len(chars) >= 2 /\ SubSeq(chars, 1, 2) = <<"r", ".">>
    THEN strip_currency(SubSeq(chars, 3, Len(chars)))
    ELSE <<chars[1]>> \o strip_currency(Tail(chars))
norm_price(txt) ==
    SearchNumber(CommaToDot(SelectSeq(strip_currency(txt), NotSpace)), 0)

\* petrovich _parse_decimal_value: all but digits, dot and comma goes; comma
\* becomes dot; with more than one dot, the parts before the last dot are the
\* integer part; PriceNotFoundError for what Decimal does not take
KeptByParse(c) == IsDigit(c) \/ IsSeparator(c)
join_parts(normalized, last_dot) ==
    SelectSeq(SubSeq(normalized, 1, last_dot - 1), IsDigit)
        \o (IF last_dot < Len(normalized)
            THEN <<".">> \o SubSeq(normalized, last_dot + 1, Len(normalized))
            ELSE <<>>)
parse_decimal_joined(normalized) ==
    IF Len(SelectSeq(normalized, IsDot)) > 1
    THEN join_parts(normalized, Greatest(DotPlaces(normalized)))
    ELSE normalized
parse_decimal_converted(decimal) ==
    IF decimal.status # "ok" THEN Raised("PriceNotFoundError") ELSE decimal
parse_decimal_text(value) ==
    parse_decimal_converted(
        DecimalOf(parse_decimal_joined(CommaToDot(SelectSeq(value, KeptByParse)))))

\* BaseParser.extract_number: float() of what is left of digits, dots and
\* commas; the float is written as the decimal literal it is nearest to
Float(decimal) == [status |-> "ok", float |-> TRUE, coef |-> decimal.coef, exp |-> decimal.exp]
extract_number_converted(decimal) ==
    IF decimal.status # "ok" THEN Raised("ScraperError") ELSE Float(decimal)
extract_number(text) ==
    extract_number_converted(DecimalOf(CommaToDot(SelectSeq(text, KeptByParse))))


\* fetch_product on a page whose one price source holds the text: the DOM
\* node of whitehills through _norm_price, the JSON-LD offer price of
\* petrovich through _parse_decimal_value, the DOM node of mk4s through
\* extract_number; the snapshot carries what the normalizer returned
price_of_source(parser_adapter, text) ==
    IF parser_adapter = "whitehills" THEN norm_price(text)
    ELSE IF parser_adapter = "petrovich" THEN parse_decimal_text(text)
    ELSE extract_number(text)
not_found(parser_adapter) ==
    IF parser_adapter = "petrovich" THEN Raised("PriceNotFoundError")
    ELSE Raised("ScraperError")
snapshot_of_price(parser_adapter, price) ==
    IF price.status # "ok" THEN not_found(parser_adapter)
    ELSE [status |-> "ok", price |-> price]
fetch_product_from_text(parser_adapter, text) ==
    snapshot_of_price(parser_adapter, price_of_source(parser_adapter, text))

(***************************************************************************)
(* The normalizers over bounded price texts.                               *)
(***************************************************************************)
\* the length of the texts taken from the whole alphabet
MaxChars == 2

Alphabet == {"1", "5", ".", ",", " ", "nbsp", "rouble", "r", "u", "x"}
Heads == {<<"1">>, <<"1", "2">>, <<"0">>}
Middles == {<<"2", "3", "4">>, <<"0", "5">>}
Tails == {<<"5", "6">>, <<"5">>, <<"2", "3", "4">>, <<"9", "9", "5">>, <<"0", "0", "5">>}
Separators == {<<".">>, <<",">>, <<" ">>, <<"nbsp">>}
Numbers ==
    Heads
        \cup {head \o sep \o tail : head \in Heads, sep \in Separators, tail \in Tails}
        \cup {head \o first \o middle \o second \o tail :
                  head \in Heads, first \in Separators, middle \in Middles,
                  second \in Separators, tail \in Tails}
Prefixes == {<<>>, <<"x", " ">>}
Suffixes == {<<>>, <<" ", "rouble">>, <<" ", "r", "u", "b", ".">>, <<"r", ".">>}
PriceTexts ==
    {prefix \o number \o suffix :
         prefix \in Prefixes, number \in Numbers, suffix \in Suffixes}
        \cup SeqsUpTo(Alphabet, MaxChars)

Normalizers ==
    {"to_decimal", "normalize_price", "_norm_price", "_parse_decimal_value",
     "extract_number"}
NormalizerCall(function, text) == [function |-> function, text |-> text]
FetchTextCall(parser_adapter, text) ==
    [function |-> "fetch_product", parser_adapter |-> parser_adapter, text |-> text]

InitNormalize ==
    /\ RulesIdle
    /\ ClientIdle
    /\ BotIdle
    /\ BatchIdle
    /\ FetchIdle
    /\ ScraperIdle
    /\ args \in {NormalizerCall(function, text) :
                     function \in Normalizers, text \in PriceTexts}
            \cup {FetchTextCall(parser_adapter, text) :
                      parser_adapter \in {"petrovich", "whitehills", "mk4s"},
                      text \in PriceTexts}
    /\ ret = None

ToDecimal ==
    /\ ret = None
    /\ args.function = "to_decimal"
    /\ ret' = to_decimal(args.text)
    /\ UNCHANGED <<args, rulesVars, batchVars, fetchVars, scraperVars, clientVars, botVars>>

NormalizePrice ==
    /\ ret = None
    /\ args.function = "normalize_price"
    /\ ret' = normalize_price(args.text)
    /\ UNCHANGED <<args, rulesVars, batchVars, fetchVars, scraperVars, clientVars, botVars>>

NormPrice ==
    /\ ret = None
    /\ args.function = "_norm_price"
    /\ ret' = norm_price(args.text)
    /\ UNCHANGED <<args, rulesVars, batchVars, fetchVars, scraperVars, clientVars, botVars>>

ParseDecimalValue ==
    /\ ret = None
    /\ args.function = "_parse_decimal_value"
    /\ ret' = parse_decimal_text(args.text)
    /\ UNCHANGED <<args, rulesVars, batchVars, fetchVars, scraperVars, clientVars, botVars>>

ExtractNumber ==
    /\ ret = None
    /\ args.function = "extract_number"
    /\ ret' = extract_number(args.text)
    /\ UNCHANGED <<args, rulesVars, batchVars, fetchVars, scraperVars, clientVars, botVars>>

FetchProductFromText ==
    /\ ret = None
    /\ args.function = "fetch_product"
    /\ ret' = fetch_product_from_text(args.parser_adapter, args.text)
    /\ UNCHANGED <<args, rulesVars, batchVars, fetchVars, scraperVars, clientVars, botVars>>

NextNormalize ==
    \/ ToDecimal
    \/ NormalizePrice
    \/ NormPrice
    \/ ParseDecimalValue
    \/ ExtractNumber
    \/ FetchProductFromText

SpecNormalize == InitNormalize /\ [][NextNormalize]_vars


(***************************************************************************)
(* Claims about the normalizers.                                           *)
(***************************************************************************)
Normalized(function) == ret # None /\ args.function = function
\* the text without currency and spaces, commas as dots
Stripped(text) == CommaToDot(SelectSeq(strip_currency(text), KeptByParse))
\* groups of digits with more than one dot between them
Grouped(chars) ==
    /\ Len(SelectSeq(chars, IsDot)) > 1
    /\ IsDigit(chars[1])
    /\ IsDigit(chars[Len(chars)])
    /\ \A i \in 1..(Len(chars) - 1) : ~(IsDot(chars[i]) /\ IsDot(chars[i + 1]))
\* the number such a text stands for: the last dot is the decimal point
LastDotDecimal(chars) == DecimalOf(join_parts(chars, Greatest(DotPlaces(chars))))
\* two decimals of one value
SameValue(a, b) ==
    a.coef * Pow10(a.exp - Min(a.exp, b.exp)) = b.coef * Pow10(b.exp - Min(a.exp, b.exp))

\* C17: each normalizer, given a text that holds more than one dot once
\* currency and spaces are gone and commas are dots, returns the number whose
\* decimal point is the last dot, the other dots being thousands separators
C17_LastDotIsDecimalPoint ==
    /\ \A function \in {"to_decimal", "_norm_price", "_parse_decimal_value"} :
           (Normalized(function) /\ Grouped(Stripped(args.text))) =>
               /\ ret.status = "ok"
               /\ SameValue(ret, LastDotDecimal(Stripped(args.text)))
    /\ (Normalized("normalize_price") /\ Grouped(Stripped(args.text))) =>
           /\ ret.status = "ok"
           /\ ret = quantize(LastDotDecimal(Stripped(args.text)))

\* a decimal with at most two fractional digits
TwoPlaces(decimal) ==
    decimal.exp >= -2 \/ decimal.coef % Pow10(-2 - decimal.exp) = 0

\* C18: the price of every snapshot fetch_product returns has at most two
\* fractional digits
C18_SnapshotPriceHasTwoPlaces ==
    (Normalized("fetch_product") /\ ret.status = "ok") => TwoPlaces(ret.price)

\* C19: normalizing the string of a normalized price gives the same price
C19_NormalizationIdempotent ==
    /\ (Normalized("normalize_price") /\ ret.status = "ok") =>
           normalize_price(str_decimal(ret)) = ret
    /\ (Normalized("to_decimal") /\ ret.status = "ok") =>
           to_decimal(str_decimal(ret)) = ret

\* a price was normalized from a text of several dots and a currency, and its
\* string is another text
C19_Witness ==
    /\ Normalized("normalize_price")
    /\ ret.status = "ok"
    /\ Len(SelectSeq(to_decimal_cleaned(args.text), IsDot)) > 1
    /\ "rouble" \in Range(args.text)
    /\ str_decimal(ret) # args.text
    /\ ret.coef > 100


(***************************************************************************)
(* The inline-script strategy of petrovich.  A script is what its text is: *)
(* nothing but spaces, a JSON document, an assignment of a JSON document   *)
(* to a variable (window.__INITIAL_STATE__ = {...};), or other code.       *)
(***************************************************************************)
\* bound of the scripts of a page
MaxScripts == 2

Script(kind, data) == [kind |-> kind, data |-> data]

\* json.loads of the whole text of a script: only a text that is a JSON
\* document and nothing else decodes; JSONDecodeError otherwise
json_loads(script) == IF script.kind = "json" THEN Some(script.data) ELSE None

\* the first candidate of a decoded script, if it has one
script_price(candidates) ==
    IF candidates = <<>> THEN None ELSE Some(candidates[1].price)

\* PetrovichParser._price_from_scripts: blank scripts and scripts that do not
\* decode are passed over; the first script with a candidate gives the price
RECURSIVE price_from_scripts(_)
price_from_scripts(scripts) ==
    IF scripts = <<>> THEN None
    ELSE IF Head(scripts).kind = "blank" \/ json_loads(Head(scripts)) = None
    THEN price_from_scripts(Tail(scripts))
    ELSE IF collect_price_candidates(json_loads(Head(scripts)).value, TRUE) = <<>>
    THEN price_from_scripts(Tail(scripts))
    ELSE script_price(collect_price_candidates(json_loads(Head(scripts)).value, TRUE))

\* a page that holds scripts and nothing else a strategy could read
scripts_source(price) == IF price = None THEN Absent ELSE Found(price.value)
ScriptsOnly(scripts) ==
    [fetched |-> TRUE, jsonld |-> Absent, retail_price |-> Absent, meta |-> Absent,
     data_attributes |-> Absent, next_data |-> Absent,
     scripts |-> scripts_source(price_from_scripts(scripts)),
     itemprop_offers |-> Absent, class_price |-> Absent]

ScriptDocuments ==
    {<<Leaf(<<"currentPrice">>, Found(99999))>>,
     <<Leaf(<<"name">>, Junk)>>,
     <<Leaf(<<"cardPrice">>, Found(9000)), Leaf(<<"regularPrice">>, Found(10000))>>}
Scripts ==
    {Script("blank", <<>>), Script("code", <<>>)}
        \cup {Script(kind, data) : kind \in {"json", "assignment"}, data \in ScriptDocuments}
ScriptsCall(scripts) == [function |-> "fetch_product", scripts |-> scripts]

InitScripts ==
    /\ RulesIdle
    /\ ClientIdle
    /\ BotIdle
    /\ BatchIdle
    /\ FetchIdle
    /\ ScraperIdle
    /\ args \in {ScriptsCall(scripts) : scripts \in SeqsUpTo(Scripts, MaxScripts)}
    /\ ret = None

FetchPetrovichScripts ==
    /\ ret = None
    /\ ret' = petrovich_fetch_product(ScriptsOnly(args.scripts))
    /\ UNCHANGED <<args, rulesVars, batchVars, fetchVars, scraperVars, clientVars, botVars>>

NextScripts == FetchPetrovichScripts

SpecScripts == InitScripts /\ [][NextScripts]_vars

(***************************************************************************)
(* Claims about the inline-script strategy.                                *)
(***************************************************************************)
\* the scripts that assign an object with a price under a price key
PricedAssignments ==
    {i \in 1..Len(args.scripts) :
         /\ args.scripts[i].kind = "assignment"
         /\ collect_price_candidates(args.scripts[i].data, TRUE) # <<>>}

\* C20: on a page where no other strategy yields, fetch_product of petrovich
\* returns the price of an object that an inline script assigns to a variable
C20_PriceFromAssignedObject ==
    (ret # None /\ PricedAssignments # {}) =>
        /\ ret.status = "ok"
        /\ \E i \in PricedAssignments :
               \E leaf \in Range(args.scripts[i].data) :
                   /\ Yields(leaf.value)
                   /\ ret.price = snapshot_price("petrovich", 10 * leaf.value.cents)


(***************************************************************************)
(* ScraperService._get_parser, statement by statement.  Here instances is  *)
(* the dict _instances itself, from adapter names to parsers; a parser is  *)
(* known by its place in the order of construction.  Calls may interleave  *)
(* at every statement, which no event loop does between two awaits: what   *)
(* holds here holds for the coroutines.                                    *)
(***************************************************************************)
\* ADAPTER_REGISTRY
Registry == {"petrovich", "whitehills", "mk4s"}
\* the adapter names the calls give, one of them in no registry
AdapterNames == {"petrovich", "mk4s", "unknown"}
ServiceCalls == {"fetch_product", "fetch_category", "fetch_products_parallel"}

ParserCall(kind, adapter_name) ==
    [kind |-> kind, adapter_name |-> adapter_name, pc |-> "get_parser", parser |-> None]

\* a mutual exclusion that excludes nobody
lock_ignored(holder) == TRUE
\* asyncio.Lock: a coroutine enters the block when no coroutine holds the lock
lock_free(holder) == holder = None

\* self._instances[adapter_name] = parser
with_instance(dict, adapter_name, parser) ==
    [name \in DOMAIN dict \cup {adapter_name} |->
        IF name = adapter_name THEN parser ELSE dict[name]]

InitParsers ==
    /\ RulesIdle
    /\ ClientIdle
    /\ BotIdle
    /\ BatchIdle
    /\ FetchIdle
    /\ ParserIdle
    /\ instances = <<>>
    /\ calls = <<>>
    /\ lock = None
    /\ constructed = <<>>

\* fetch_product, fetch_category or fetch_products_parallel is called and
\* reaches await self._get_parser(adapter_name)
CallService ==
    /\ Len(calls) < MaxCalls
    /\ \E kind \in ServiceCalls, adapter_name \in AdapterNames :
        calls' = Append(calls, ParserCall(kind, adapter_name))
    /\ UNCHANGED <<instances, lock, constructed, rulesVars, batchVars, fetchVars, parserVars, clientVars, botVars>>

\* async with self._lock
EnterLock ==
    /\ \E c \in 1..Len(calls) :
        /\ calls[c].pc = "get_parser"
        /\ lock_free(lock)
        /\ lock' = Some(c)
        /\ calls' = [calls EXCEPT ![c].pc = "check"]
    /\ UNCHANGED <<instances, constructed, rulesVars, batchVars, fetchVars, parserVars, clientVars, botVars>>

\* if adapter_name not in self._instances
CheckInstance ==
    /\ \E c \in 1..Len(calls) :
        /\ calls[c].pc = "check"
        /\ calls' = [calls EXCEPT ![c].pc =
                IF calls[c].adapter_name \in DOMAIN instances THEN "return" ELSE "lookup"]
    /\ UNCHANGED <<instances, lock, constructed, rulesVars, batchVars, fetchVars, parserVars, clientVars, botVars>>

\* parser_cls = self.registry.get(adapter_name); ScraperError leaves the
\* block, which releases the lock
LookupClass ==
    /\ \E c \in 1..Len(calls) :
        /\ calls[c].pc = "lookup"
        /\ IF calls[c].adapter_name \in Registry
           THEN /\ calls' = [calls EXCEPT ![c].pc = "construct"]
                /\ UNCHANGED lock
           ELSE /\ calls' = [calls EXCEPT ![c].pc = "raised"]
                /\ lock' = None
    /\ UNCHANGED <<instances, constructed, rulesVars, batchVars, fetchVars, parserVars, clientVars, botVars>>

\* self._instances[adapter_name] = parser_cls()
Construct ==
    /\ \E c \in 1..Len(calls) :
        /\ calls[c].pc = "construct"
        /\ constructed' = Append(constructed, calls[c].adapter_name)
        /\ instances' = with_instance(instances, calls[c].adapter_name, Len(constructed) + 1)
        /\ calls' = [calls EXCEPT ![c].pc = "return"]
    /\ UNCHANGED <<lock, rulesVars, batchVars, fetchVars, parserVars, clientVars, botVars>>

\* return self._instances[adapter_name], which leaves the block; the caller
\* goes on with the parser it was given
ReturnParser ==
    /\ \E c \in 1..Len(calls) :
        /\ calls[c].pc = "return"
        /\ calls' = [calls EXCEPT ![c].pc = "running",
                                  ![c].parser = Some(instances[calls[c].adapter_name])]
        /\ lock' = None
    /\ UNCHANGED <<instances, constructed, rulesVars, batchVars, fetchVars, parserVars, clientVars, botVars>>

\* the work of the call on its parser ends
FinishCall ==
    /\ \E c \in 1..Len(calls) :
        /\ calls[c].pc = "running"
        /\ calls' = [calls EXCEPT ![c].pc = "done"]
    /\ UNCHANGED <<instances, lock, constructed, rulesVars, batchVars, fetchVars, parserVars, clientVars, botVars>>

NextParsers ==
    \/ CallService
    \/ EnterLock
    \/ CheckInstance
    \/ LookupClass
    \/ Construct
    \/ ReturnParser
    \/ FinishCall

SpecParsers == InitParsers /\ [][NextParsers]_vars

(***************************************************************************)
(* Claims about the parser instances.                                      *)
(***************************************************************************)
ConstructedFor(adapter_name) ==
    {i \in 1..Len(constructed) : constructed[i] = adapter_name}
WithParser == {c \in 1..Len(calls) : calls[c].parser # None}

\* C21: however the calls of one ScraperService interleave, at most one parser
\* is constructed for an adapter name, and every call that names the adapter
\* runs on that parser
C21_OneParserPerAdapterName ==
    /\ \A adapter_name \in AdapterNames : Cardinality(ConstructedFor(adapter_name)) <= 1
    /\ \A c \in WithParser :
        /\ calls[c].parser.value \in ConstructedFor(calls[c].adapter_name)
        /\ calls[c].parser.value = instances[calls[c].adapter_name]

\* two calls of different kinds on one adapter name have both got their parser
C21_Witness ==
    \E c, d \in WithParser :
        /\ c # d
        /\ calls[c].kind # calls[d].kind
        /\ calls[c].adapter_name = calls[d].adapter_name


(***************************************************************************)
(* MoySkladClient._request (msklad/client.py).  http is the list of the    *)
(* requests the session was asked to make, each with what came of it.      *)
(***************************************************************************)
\* _MAX_RETRIES, _RETRYABLE_STATUSES
MAX_RETRIES == 5
RETRYABLE_STATUSES == {429}

\* what session.request(method, url, timeout=30, ...) comes to: a response
\* with a status code, or an exception of requests
Responded(status_code) == [status_code |-> status_code]
NoResponse == [exception |-> "RequestException"]
IsResponse(outcome) == "status_code" \in DOMAIN outcome

Exchange(method, path, json, outcome) ==
    [method |-> method, path |-> path, json |-> json, outcome |-> outcome]

\* a retry policy that retries every error status
should_retry_every_error(status_code) == status_code >= 400
\* MoySkladClient._should_retry
should_retry(status_code) == status_code \in RETRYABLE_STATUSES \/ status_code >= 500

\* a budget of one attempt more
attempts_left_after_last(attempt) == attempt <= MAX_RETRIES
\* attempt < _MAX_RETRIES
attempts_left(attempt) == attempt < MAX_RETRIES

\* a _request call at the top of its loop
Request(method, path, json) ==
    [method |-> method, path |-> path, json |-> json, attempt |-> 0, pc |-> "send",
     error |-> None]

\* one pass of the loop of _request from the response on: retry after a sleep,
\* raise through _raise_for_response, or break and return
after_response(request, outcome) ==
    IF ~IsResponse(outcome)
    THEN [request EXCEPT !.pc = "raised", !.error = Some(outcome.exception)]
    ELSE IF outcome.status_code >= 400
    THEN IF should_retry(outcome.status_code) /\ attempts_left(request.attempt)
         THEN [request EXCEPT !.pc = "sleep"]
         ELSE [request EXCEPT !.pc = "raised", !.error = Some("MoySkladError")]
    ELSE [request EXCEPT !.pc = "returned"]

\* attempt += 1 and the response to it
request_sent(request, outcome) ==
    after_response([request EXCEPT !.attempt = @ + 1], outcome)

StatusCodes == {200, 204, 399, 400, 404, 429, 499, 500, 503}
Outcomes == {Responded(status_code) : status_code \in StatusCodes} \cup {NoResponse}
Methods == {"GET", "PUT"}
Paths == {"context/companysettings", "entity/product"}

InitRequest ==
    /\ RulesIdle
    /\ BotIdle
    /\ BatchIdle
    /\ FetchIdle
    /\ ScraperIdle
    /\ ParserIdle
    /\ http = <<>>
    /\ client \in {Request(method, path, None) : method \in Methods, path \in Paths}

\* attempt += 1; response = self.session.request(...); the branch on its status
SendRequest ==
    /\ client.pc = "send"
    /\ \E outcome \in Outcomes :
        /\ http' = Append(http, Exchange(client.method, client.path, client.json, outcome))
        /\ client' = request_sent(client, outcome)
    /\ UNCHANGED <<rulesVars, batchVars, fetchVars, scraperVars, parserVars, botVars>>

\* time.sleep(delay) ends; continue
Sleep ==
    /\ client.pc = "sleep"
    /\ client' = [client EXCEPT !.pc = "send"]
    /\ UNCHANGED <<http, rulesVars, batchVars, fetchVars, scraperVars, parserVars, botVars>>

NextRequest == SendRequest \/ Sleep

SpecRequest == InitRequest /\ [][NextRequest]_vars

\* session.request is given timeout=30 and time.sleep a delay of at most 45
\* seconds: neither step is waited for forever
SpecRequestFair == SpecRequest /\ WF_vars(SendRequest) /\ WF_vars(Sleep)

(***************************************************************************)
(* Claims about _request.                                                  *)
(***************************************************************************)
Answered(exchange) == IsResponse(exchange.outcome)
Retryable(exchange) ==
    /\ IsResponse(exchange.outcome)
    /\ exchange.outcome.status_code = 429 \/ exchange.outcome.status_code >= 500
ErrorStatus(exchange) ==
    IsResponse(exchange.outcome) /\ exchange.outcome.status_code >= 400
LastExchange == http[Len(http)]
RaisedMoySkladError == client.pc = "raised" /\ client.error = Some("MoySkladError")

\* C22: a request is followed by another only when its response had status
\* 429 or a status from 500 up; a response with any other status from 400 up
\* makes the call raise MoySkladError with no request after it, so after one
\* request when it is the first response; a response with a status below 400
\* makes the call return with no request after it
C22_RetryOnlyOn429And5xx ==
    /\ \A i \in 1..(Len(http) - 1) : Retryable(http[i])
    /\ (client.pc \in {"sleep", "send"} /\ http # <<>>) => Retryable(LastExchange)
    /\ (http # <<>> /\ ErrorStatus(LastExchange) /\ ~Retryable(LastExchange)) =>
        RaisedMoySkladError
    /\ (Len(http) = 1 /\ ErrorStatus(http[1]) /\ ~Retryable(http[1])) =>
        RaisedMoySkladError
    /\ (http # <<>> /\ Answered(LastExchange) /\ ~ErrorStatus(LastExchange)) =>
        client.pc = "returned"

\* a retried call that ends on a status that is not retried
C22_Witness ==
    /\ Len(http) = 3
    /\ http[1].outcome = Responded(429)
    /\ http[2].outcome = Responded(500)
    /\ http[3].outcome = Responded(404)
    /\ RaisedMoySkladError

RequestEnded == client.pc \in {"returned", "raised"}
RequestWithinLimit ==
    /\ Len(http) <= 5
    /\ client.pc = "returned" <=>
        (http # <<>> /\ Answered(LastExchange) /\ ~ErrorStatus(LastExchange))
    /\ RaisedMoySkladError <=>
        /\ http # <<>>
        /\ ErrorStatus(LastExchange)
        /\ ~Retryable(LastExchange) \/ Len(http) = 5
    /\ \A i \in 1..(Len(http) - 1) : ErrorStatus(http[i])

\* C29: a _request call makes at most 5 HTTP requests and ends: it returns on
\* the first response with a status below 400, and raises MoySkladError on the
\* first error that is not retried or on a retryable error of the 5th attempt
C29_RequestEndsWithinFiveRequests == []RequestWithinLimit /\ <>RequestEnded

\* the 5th attempt got a retryable error and the call raised
C29_Witness ==
    /\ Len(http) = 5
    /\ Retryable(LastExchange)
    /\ RaisedMoySkladError


(***************************************************************************)
(* MoySkladClient.ensure_price_types (msklad/client.py).  An entry of the  *)
(* priceTypes list is its name, its external code, and the currency and    *)
(* priceType objects it carries, if any.                                   *)
(***************************************************************************)
\* bound of the names a call is given
MaxRequested == 2

PriceTypeEntry(name, externalCode, currency, priceType) ==
    [name |-> name, externalCode |-> externalCode, currency |-> currency,
     priceType |-> priceType]

\* an external code: the slug of a name, and the number put after it, if any
Code(slug, index) == [slug |-> slug, index |-> index]

\* name.strip() on the names of the model
strip(name) == IF name = " Retail " THEN "Retail" ELSE name

\* the loop over price_types: empty names dropped, the others stripped and
\* kept once each, in order
RECURSIVE requested_from(_, _)
requested_from(price_types, requested) ==
    IF price_types = <<>> THEN requested
    ELSE IF Head(price_types) = "" \/ strip(Head(price_types)) = ""
              \/ strip(Head(price_types)) \in Range(requested)
    THEN requested_from(Tail(price_types), requested)
    ELSE requested_from(Tail(price_types), Append(requested, strip(Head(price_types))))

\* the keys of mapping: the names of the current entries that have one
mapped_names(current_price_types) ==
    {current_price_types[i].name : i \in 1..Len(current_price_types)} \ {""}

\* every requested name, whether the settings hold it or not
missing_all(requested, current_price_types) == requested
\* missing = [name for name in requested if name not in mapping]
missing_names(requested, current_price_types) ==
    SelectSeq(requested, LAMBDA name : name \notin mapped_names(current_price_types))

\* existing_codes
existing_codes(current_price_types) ==
    {current_price_types[i].externalCode.value :
        i \in {k \in 1..Len(current_price_types) : current_price_types[k].externalCode # None}}

\* _generate_external_code: the slug of the name, or the slug with the first
\* number from 1 up that makes it unused
generate_external_code(name, used_codes) ==
    IF Code(name, 0) \notin used_codes THEN Code(name, 0)
    ELSE Code(name, CHOOSE index \in 1..(Cardinality(used_codes) + 1) :
                        /\ Code(name, index) \notin used_codes
                        /\ \A lower \in 1..(index - 1) : Code(name, lower) \in used_codes)

\* _extract_currency_from_settings: the currency of the first entry that has
\* one, else the currency of the company settings
RECURSIVE first_currency(_, _)
first_currency(current_price_types, settings_currency) ==
    IF current_price_types = <<>> THEN settings_currency
    ELSE IF Head(current_price_types).currency # None THEN Head(current_price_types).currency
    ELSE first_currency(Tail(current_price_types), settings_currency)

\* price_type_template: the priceType of the first entry that has one
RECURSIVE first_price_type(_)
first_price_type(current_price_types) ==
    IF current_price_types = <<>> THEN None
    ELSE IF Head(current_price_types).priceType # None THEN Head(current_price_types).priceType
    ELSE first_price_type(Tail(current_price_types))

\* the loop over missing: one new entry per name, appended
RECURSIVE with_new_entries(_, _, _, _, _)
with_new_entries(updated_price_types, missing, used_codes, currency, priceType) ==
    IF missing = <<>> THEN updated_price_types
    ELSE with_new_entries(
            Append(updated_price_types,
                   PriceTypeEntry(Head(missing),
                                  Some(generate_external_code(Head(missing), used_codes)),
                                  currency, priceType)),
            Tail(missing),
            used_codes \cup {generate_external_code(Head(missing), used_codes)},
            currency, priceType)

\* payload["priceTypes"]
updated_price_types(company_settings, missing) ==
    with_new_entries(company_settings.priceTypes, missing,
                     existing_codes(company_settings.priceTypes),
                     first_currency(company_settings.priceTypes, company_settings.currency),
                     first_price_type(company_settings.priceTypes))

\* the names of the result: the requested names among the current entries
result_names(current_price_types, requested) ==
    {current_price_types[i].name : i \in 1..Len(current_price_types)} \cap Range(requested)

CompanySettingsPath == "context/companysettings"

\* an ensure_price_types call: the names it keeps, where it is, the _request
\* call it is in, the settings it read, what it returned
Ensure(requested, pc, request, company_settings, returned) ==
    [function |-> "ensure_price_types", requested |-> requested, pc |-> pc,
     request |-> request, company_settings |-> company_settings, returned |-> returned]

\* the call up to its first request: if not requested: return {}
ensure_called(requested) ==
    IF requested = <<>> THEN Ensure(requested, "returned", None, None, Some({}))
    ELSE Ensure(requested, "get", Request("GET", CompanySettingsPath, None), None, None)

\* the call once the GET has returned these settings
ensure_after_get(call, company_settings) ==
    IF missing_names(call.requested, company_settings.priceTypes) # <<>>
    THEN [call EXCEPT
            !.pc = "put",
            !.company_settings = Some(company_settings),
            !.request = Request("PUT", CompanySettingsPath,
                            Some(updated_price_types(company_settings,
                                    missing_names(call.requested, company_settings.priceTypes))))]
    ELSE [call EXCEPT
            !.pc = "returned",
            !.company_settings = Some(company_settings),
            !.returned = Some(result_names(company_settings.priceTypes, call.requested))]

\* the call once the PUT has returned: the priceTypes of the answer, or the
\* list that was sent when the answer has none
ensure_after_put(call, answered) ==
    [call EXCEPT
        !.pc = "returned",
        !.returned = Some(result_names(IF answered = <<>> THEN call.request.json.value
                                       ELSE answered, call.requested))]

\* the call once its _request has made a step
ensure_after_request(call, request, company_settings) ==
    IF request.pc = "raised" THEN [call EXCEPT !.pc = "raised", !.request = request]
    ELSE IF request.pc = "sleep" THEN [call EXCEPT !.request = request]
    ELSE IF call.pc = "get" THEN ensure_after_get([call EXCEPT !.request = request],
                                                  company_settings)
    ELSE ensure_after_put([call EXCEPT !.request = request], company_settings.priceTypes)

RetailEntry == PriceTypeEntry("Retail", Some(Code("Retail", 0)), Some("RUB"), Some("retail"))
ClashingEntry == PriceTypeEntry("Opt", Some(Code("Wholesale", 0)), None, None)
NamelessEntry == PriceTypeEntry("", None, None, None)
PriceTypeLists ==
    {<<>>, <<RetailEntry>>, <<ClashingEntry>>, <<RetailEntry, ClashingEntry>>,
     <<NamelessEntry, RetailEntry>>}
CompanySettings ==
    {[priceTypes |-> list, currency |-> currency] :
        list \in PriceTypeLists, currency \in {None, Some("USD")}}
RequestedNames == {"", " Retail ", "Retail", "Wholesale"}
EnsureOutcomes == {Responded(200), Responded(404), Responded(503), NoResponse}

InitEnsure ==
    /\ RulesIdle
    /\ BotIdle
    /\ BatchIdle
    /\ FetchIdle
    /\ ScraperIdle
    /\ ParserIdle
    /\ http = <<>>
    /\ client = None

\* ensure_price_types(price_types) up to its first request
CallEnsurePriceTypes ==
    /\ client = None
    /\ \E price_types \in SeqsUpTo(RequestedNames, MaxRequested) :
        client' = ensure_called(requested_from(price_types, <<>>))
    /\ UNCHANGED <<http, rulesVars, batchVars, fetchVars, scraperVars, parserVars, botVars>>

\* one pass of the loop of the _request the call is in, and, when it returns,
\* the call up to its next request or its end
EnsureSendRequest ==
    /\ client # None
    /\ client.pc \in {"get", "put"}
    /\ client.request.pc = "send"
    /\ \E outcome \in EnsureOutcomes, company_settings \in CompanySettings :
        /\ http' = Append(http, Exchange(client.request.method, client.request.path,
                                         client.request.json, outcome))
        /\ client' = ensure_after_request(client, request_sent(client.request, outcome),
                                          company_settings)
    /\ UNCHANGED <<rulesVars, batchVars, fetchVars, scraperVars, parserVars, botVars>>

\* time.sleep(delay) ends; continue
EnsureSleep ==
    /\ client # None
    /\ client.pc \in {"get", "put"}
    /\ client.request.pc = "sleep"
    /\ client' = [client EXCEPT !.request.pc = "send"]
    /\ UNCHANGED <<http, rulesVars, batchVars, fetchVars, scraperVars, parserVars, botVars>>

NextEnsure == CallEnsurePriceTypes \/ EnsureSendRequest \/ EnsureSleep

SpecEnsure == InitEnsure /\ [][NextEnsure]_vars


(***************************************************************************)
(* Claims about ensure_price_types.                                        *)
(***************************************************************************)
Puts == {i \in 1..Len(http) : http[i].method = "PUT"}
EnsureEnded == client # None /\ client.pc \in {"returned", "raised"}
SettingsRead == client # None /\ client.company_settings # None
ExistingEntries == client.company_settings.value.priceTypes
\* the requested names that no entry of the settings read carries
MissingNames ==
    {name \in Range(client.requested) :
        \A i \in 1..Len(ExistingEntries) : ExistingEntries[i].name # name}
\* the list this PUT carries is the existing entries, unchanged and in place,
\* followed by one entry per missing name
CarriesExistingAndMissing(i) ==
    /\ http[i].path = "context/companysettings"
    /\ http[i].json # None
    /\ Len(http[i].json.value) = Len(ExistingEntries) + Cardinality(MissingNames)
    /\ SubSeq(http[i].json.value, 1, Len(ExistingEntries)) = ExistingEntries
    /\ {http[i].json.value[k].name :
            k \in (Len(ExistingEntries) + 1)..Len(http[i].json.value)} = MissingNames
NoPriceTypeEntityRequest ==
    \A i \in 1..Len(http) : http[i].path # "entity/pricetype"

\* C23 as stated: a call that read the settings and ended has sent exactly one
\* PUT, to context/companysettings and with the existing entries plus one new
\* entry per missing name, when a requested name was missing, and no PUT when
\* none was; no request goes to entity/pricetype
C23_ExactlyOnePutWhenMissing ==
    /\ (EnsureEnded /\ SettingsRead /\ MissingNames # {}) =>
        /\ Cardinality(Puts) = 1
        /\ \A i \in Puts : CarriesExistingAndMissing(i)
    /\ (EnsureEnded /\ SettingsRead /\ MissingNames = {}) => Puts = {}
    /\ NoPriceTypeEntityRequest

\* C23 amended: a call that read the settings and found a requested name
\* missing makes one PUT _request to context/companysettings, which sends the
\* PUT once per attempt, every time with the existing entries plus one new
\* entry per missing name, and again only after an answer of 429 or 5xx; a
\* call that found none missing sends no PUT; no request goes to
\* entity/pricetype
C23_OnePutRequestWhenMissing ==
    /\ Puts # {} => (SettingsRead /\ MissingNames # {})
    /\ \A i \in Puts : CarriesExistingAndMissing(i)
    /\ \A i, j \in Puts : i < j => Retryable(http[i])
    /\ Cardinality(Puts) <= 5
    /\ (EnsureEnded /\ SettingsRead /\ MissingNames # {}) => Puts # {}
    /\ (client # None /\ client.pc = "returned" /\ Puts # {}) =>
        /\ Answered(LastExchange)
        /\ ~ErrorStatus(LastExchange)
        /\ LastExchange.method = "PUT"
    /\ NoPriceTypeEntityRequest

\* a call that found two names missing and returned after a retried PUT
C23_Witness ==
    /\ client # None
    /\ client.pc = "returned"
    /\ Cardinality(Puts) = 2
    /\ Cardinality(MissingNames) = 2
    /\ ExistingEntries # <<>>


(***************************************************************************)
(* merge_rules over bounded rule groups.                                   *)
(***************************************************************************)
\* the rules of pricing_rules rows; two rows of one content give one spec
GroupRules ==
    {PricingRuleSpec("PERCENT_MARKUP", 10, "Retail", 1),
     PricingRuleSpec("MINUS_FIXED", 5, "Retail", 1),
     PricingRuleSpec("EQUAL", 0, "Online", 2)}
MergeCall(product_rules, category_rules) ==
    [function |-> "merge_rules", product_rules |-> product_rules,
     category_rules |-> category_rules]

InitMerge ==
    /\ RulesIdle
    /\ ClientIdle
    /\ BotIdle
    /\ BatchIdle
    /\ FetchIdle
    /\ ScraperIdle
    /\ args \in {MergeCall(product_rules, category_rules) :
                    product_rules \in SeqsUpTo(GroupRules, MaxRules),
                    category_rules \in SeqsUpTo(GroupRules, MaxRules)}
    /\ ret = None

\* merge_rules(product.pricing_rules, self._category_rules(product))
MergeRules ==
    /\ ret = None
    /\ ret' = Some(merge_rules(args.product_rules, args.category_rules))
    /\ UNCHANGED <<args, rulesVars, batchVars, fetchVars, scraperVars, clientVars, botVars>>

NextMerge == MergeRules

SpecMerge == InitMerge /\ [][NextMerge]_vars

(***************************************************************************)
(* Claims about merge_rules.                                               *)
(***************************************************************************)
Pooled == Range(args.product_rules) \cup Range(args.category_rules)

\* C25: the list merge_rules returns holds every rule of the two groups, and
\* holds no rule twice
C25_MergedRulesAreDistinct ==
    ret # None =>
        /\ Range(ret.value) = Pooled
        /\ \A i, j \in 1..Len(ret.value) : ret.value[i] = ret.value[j] => i = j


(***************************************************************************)
(* perform_recheck (bot/main.py): a manual check of one product inside a   *)
(* session_scope of its own.                                               *)
(***************************************************************************)
\* what the bot tells the user
failure_message(error) ==
    IF error \in {"PriceNotFoundError", "ScraperError"} THEN "check_failed"
    ELSE IF error = "MoySkladError" THEN "msklad_failed"
    ELSE "unexpected_error"

\* the last message of a recheck whose check_product returned
result_message(event) == IF event # None THEN "price_updated" ELSE "price_unchanged"

\* a perform_recheck call: the exception of check_product it caught, whether it
\* called session.flush(), whether the commit of session_scope wrote changes
\* of the session to the database, the exception that left the call, and the
\* messages it sent
Recheck(n, product_id, caught, flushed, written, escaped, sent) ==
    [n |-> n, product_id |-> product_id, caught |-> caught, flushed |-> flushed,
     written |-> written, escaped |-> escaped, sent |-> sent]
NoRecheck == Recheck(0, 0, None, FALSE, FALSE, None, <<>>)

\* the rows of products and price_events once the session has been committed
committed_products(rows, id, assigned) ==
    IF assigned = None THEN rows
    ELSE [rows EXCEPT ![id].last_price = Some(Numeric(assigned.value.last_price)),
                      ![id].last_checked_at = assigned.value.last_checked_at]
committed_events(rows, pending) ==
    rows \o [k \in 1..Len(pending) |-> event_row(pending[k])]

\* session.get(Product, product_id) finds no row: one message, return
RecheckNotFound(product_id) ==
    /\ recheck' = Recheck(recheck.n + 1, product_id, None, FALSE, FALSE, None,
                          <<"product_not_found">>)
    /\ messages' = Append(messages, "product_not_found")
    /\ UNCHANGED <<products, price_events, msklad, last_check>>

\* perform_recheck from the end of check_product on.  An exception of
\* check_product is caught, reported, and the handler returns inside the with
\* block, so session_scope commits what check_product had changed by then;
\* otherwise session.flush(), the commit, and the message of the result.  A
\* flush that fails, in flush() or in commit(), rolls back and leaves the call.
AfterRecheck(id, product, fetched, checked) ==
    LET pending  == IF checked.event = None THEN <<>> ELSE <<checked.event.value>>
        caught   == checked.outcome = "raised"
        failed   == flush_raises(pending)
        sent     == IF caught THEN <<failure_message(checked.error.value)>>
                    ELSE IF failed THEN <<>>
                    ELSE <<result_message(checked.event)>>
    IN  /\ msklad' = msklad \o checked.delivered
        /\ last_check' = Some([product_id |-> id, stored |-> product.last_price,
                               fetched |-> fetched, checked |-> checked])
        /\ products' = IF failed THEN products
                       ELSE committed_products(products, id, checked.assigned)
        /\ price_events' = IF failed THEN price_events
                           ELSE committed_events(price_events, pending)
        /\ recheck' = Recheck(recheck.n + 1, id,
                              IF caught THEN checked.error ELSE None,
                              ~caught,
                              ~failed /\ (checked.assigned # None \/ pending # <<>>),
                              IF failed THEN Some("StatementError") ELSE None,
                              sent)
        /\ messages' = messages \o sent

\* the products a recheck can meet
RecheckRows ==
    { Product(TRUE, "mk4s",
              <<PricingRuleSpec("PERCENT_MARKUP", 10, "Retail", 1)>>, <<>>, RetailLink(1)),
      WithLastPrice(Product(TRUE, "mk4s", <<>>, <<>>, RetailLink(1)), 10000),
      Product(TRUE, "mk4s",
              <<PricingRuleSpec("EQUAL", 0, default_price_types[1], 1)>>, <<>>, RetailLink(1)),
      Product(TRUE, "mk4s",
              <<PricingRuleSpec("EQUAL", 0, "Online", 1)>>, <<>>, RetailLink(1)),
      Product(TRUE, "mk4s",
              <<PricingRuleSpec("MINUS_FIXED", 5, "Retail", 1)>>, <<>>,
              <<MSkladLink(Codes[1], <<"Retail">>, TRUE), MSkladLink(Codes[2], <<"Retail">>, TRUE)>>),
      Product(TRUE, "petrovich", <<>>, <<>>, RetailLink(1)),
      WithLastPrice(Product(TRUE, "petrovich", <<>>, <<>>, RetailLink(1)), 10000),
      Product(FALSE, "mk4s", <<>>, <<>>, RetailLink(1)) }
\* the ids a recheck is asked for: the product, and a product that is not there
RecheckIds == {1, 2}

InitRecheck ==
    /\ RulesIdle
    /\ ClientIdle
    /\ FetchIdle
    /\ ScraperIdle
    /\ ParserIdle
    /\ \E row \in RecheckRows : products = <<row>>
    /\ price_events = <<>>
    /\ session = NoSession
    /\ run = NoRun
    /\ msklad = <<>>
    /\ now = 1
    /\ last_check = None
    /\ recheck = NoRecheck
    /\ messages = <<>>

\* perform_recheck(query, product_id), for whatever the scraper and MoySklad
\* answer
PerformRecheck ==
    /\ recheck.n < MaxRuns
    /\ \E product_id \in RecheckIds :
        IF product_id \notin DOMAIN products
        THEN RecheckNotFound(product_id)
        ELSE \E fetched \in FetchOutcomes(products[product_id].parser_adapter),
                failing \in SUBSET LinkCodes(products[product_id]) :
                AfterRecheck(product_id, products[product_id], fetched,
                             check_product(product_id, products[product_id], fetched,
                                           failing, now))
    /\ now' = now + 1
    /\ UNCHANGED <<session, run>>
    /\ UNCHANGED <<rulesVars, fetchVars, scraperVars, parserVars, clientVars>>

NextRecheck == PerformRecheck

SpecRecheck == InitRecheck /\ [][NextRecheck]_vars


(***************************************************************************)
(* Claims about a check of one product.                                    *)
(***************************************************************************)
CaughtFailure ==
    /\ recheck.caught # None
    /\ recheck.caught.value \in {"ScraperError", "PriceNotFoundError", "MoySkladError"}

\* C24: a perform_recheck whose check_product raised ScraperError,
\* PriceNotFoundError or MoySkladError sent exactly one message, the report of
\* the failure, never flushed the session, by flush() or by the commit of
\* changes the session held, and sent no message of a result
C24_FailureReportedOnceAndNothingFlushed ==
    CaughtFailure =>
        /\ recheck.sent = <<failure_message(recheck.caught.value)>>
        /\ recheck.sent[1] \in {"check_failed", "msklad_failed"}
        /\ ~recheck.flushed
        /\ ~recheck.written

LastChecked == last_check.value
\* what the rule engine computed in the last check
ComputedMapping ==
    build_price_map(products[LastChecked.product_id], LastChecked.fetched.price)

\* C26: every value delivered to MoySklad under a price type name in a check is
\* the value the rule engine computed for that name in this check
C26_PushedValueIsComputedForItsName ==
    last_check # None =>
        \A k \in 1..Len(LastChecked.checked.delivered) :
            \A price_type \in DOMAIN LastChecked.checked.delivered[k].payload :
                /\ ComputedMapping.status = "ok"
                /\ price_type \in DOMAIN ComputedMapping.mapping
                /\ LastChecked.checked.delivered[k].payload[price_type]
                        = Some(ComputedMapping.mapping[price_type])

PushFailed ==
    /\ last_check # None
    /\ LastChecked.checked.outcome = "raised"
    /\ LastChecked.checked.error = Some("MoySkladError")
    /\ LastChecked.checked.changed = "yes"

\* C27: after a check whose push to MoySklad failed, the stored last_price of
\* the product is the one it had before the check
C27_FailedPushKeepsLastPrice ==
    PushFailed => products[LastChecked.product_id].last_price = LastChecked.stored


(***************************************************************************)
(* check_all_products run again and again (scheduler/main.py adds it as an *)
(* interval job).  Runs are not counted and the logs keep the entries of   *)
(* the last check and the last commit only.  A time is kept as its rank    *)
(* among the stored times: the query orders by last_checked_at and nothing *)
(* else reads it.                                                          *)
(***************************************************************************)
stamps(rows) == {rows[id].last_checked_at : id \in DOMAIN rows} \ {NullTime}
rank(rows, t) ==
    IF t = NullTime THEN NullTime ELSE Cardinality({s \in stamps(rows) : s <= t})
ranked(rows) ==
    [id \in DOMAIN rows |-> [rows[id] EXCEPT !.last_checked_at = rank(rows, @)]]
\* datetime.utcnow() is later than every stored time
utcnow(rows) == Cardinality(stamps(rows)) + 1

\* the rows of the repeated runs: two that can be checked, one whose rule type
\* _apply_rule rejects at every check, one disabled
RunRows(id) ==
    { Product(TRUE, "mk4s",
              <<PricingRuleSpec("PERCENT_MARKUP", 10, "Retail", 1)>>, <<>>, RetailLink(id)),
      WithLastPrice(Product(TRUE, "mk4s", <<>>, <<>>, RetailLink(id)), 10000),
      Product(TRUE, "mk4s",
              <<PricingRuleSpec(UnsupportedRuleType, 0, "Retail", 1)>>, <<>>, RetailLink(id)),
      Product(FALSE, "mk4s", <<>>, <<>>, RetailLink(id)) }

\* the competitor's pages are up and MoySklad accepts every update
PagesUp(parser_adapter) ==
    {Fetched(snapshot_price(parser_adapter, mills)) : mills \in ScrapedMills}

\* check_product over every row, page and time the runs can come to: the
\* stored prices are the scraped ones, the times the ranks and the ticks of a run
StoredPrices ==
    {None, Some(10000)}
        \cup {Some(Numeric(snapshot_price("mk4s", mills))) : mills \in ScrapedMills}
StoredRows(id) ==
    {[row EXCEPT !.last_price = stored, !.last_checked_at = at] :
        row \in RunRows(id), stored \in StoredPrices, at \in 0..MaxProducts}
checks_of_runs ==
    [id \in 1..MaxProducts |->
        [product \in StoredRows(id) |->
            [fetched \in PagesUp(product.parser_adapter) |->
                [t \in 1..(2 * MaxProducts + 1) |->
                    check_product(id, product, fetched, {}, t)]]]]

InitRuns ==
    /\ RulesIdle
    /\ ClientIdle
    /\ BotIdle
    /\ FetchIdle
    /\ ScraperIdle
    /\ ParserIdle
    /\ \E n \in 1..MaxProducts :
        \E rows \in [1..n -> UNION {RunRows(id) : id \in 1..n}] :
            /\ \A id \in 1..n : rows[id] \in RunRows(id)
            /\ products = rows
    /\ price_events = <<>>
    /\ session = NoSession
    /\ run = [pc |-> "idle", n |-> 0, batch |-> <<>>, i |-> 1, events |-> <<>>,
              error |-> None, outcomes |-> <<>>]
    /\ msklad = <<>>
    /\ now = 1
    /\ last_check = None

\* the scheduler calls check_all_products: open the session, query
StartNextRun ==
    /\ run.pc \in {"idle", "returned", "raised"}
    /\ \E batch_size \in BatchSizes :
        \E batch \in query_products(products,
                        IF batch_size = 0 THEN price_check_batch_size ELSE batch_size) :
            run' = [pc |-> "loop", n |-> 1, batch |-> batch, i |-> 1,
                    events |-> <<>>, error |-> None, outcomes |-> <<>>]
    /\ session' = [active |-> TRUE, dirty |-> [id \in {} |-> None], new |-> <<>>]
    /\ UNCHANGED <<products, price_events, msklad, now, last_check>>
    /\ UNCHANGED <<rulesVars, fetchVars, scraperVars, parserVars, clientVars, botVars>>

\* the rest of a pass of the loop once check_product has ended, as AfterCheck;
\* a run that raises leaves the stored times as they were
AfterCheckOfRun(id, product, fetched, checked) ==
    LET unsaved == IF checked.outcome = "event" THEN <<checked.event.value>> ELSE <<>>
        raised  == checked.outcome = "raised" \/ flush_raises(unsaved)
        error   == IF checked.outcome = "raised" THEN checked.error
                   ELSE Some("StatementError")
    IN  /\ msklad' = checked.delivered
        /\ last_check' = Some([product_id |-> id, stored |-> product.last_price,
                               fetched |-> fetched, checked |-> checked])
        /\ IF raised
           THEN /\ session' = NoSession
                /\ run' = [run EXCEPT !.pc = "raised", !.error = error,
                                      !.outcomes = Append(@, Outcome(id, "raised", now))]
                /\ now' = utcnow(products)
           ELSE /\ session' = [session EXCEPT
                        !.dirty = IF checked.assigned = None THEN @
                                  ELSE (id :> checked.assigned.value) @@ @,
                        !.new = @ \o unsaved]
                /\ run' = [run EXCEPT
                        !.i = @ + 1,
                        !.events = @ \o [k \in 1..Len(unsaved) |-> event_dict(unsaved[k])],
                        !.outcomes = Append(@, Outcome(id, checked.outcome, now))]
                /\ now' = now + 1

\* one pass of the loop of check_all_products
CheckNext ==
    /\ run.pc = "loop"
    /\ run.i <= Len(run.batch)
    /\ \E fetched \in PagesUp(products[run.batch[run.i]].parser_adapter) :
            AfterCheckOfRun(run.batch[run.i], products[run.batch[run.i]], fetched,
                            checks_of_runs[run.batch[run.i]][products[run.batch[run.i]]]
                                          [fetched][now])
    /\ UNCHANGED <<products, price_events>>
    /\ UNCHANGED <<rulesVars, fetchVars, scraperVars, parserVars, clientVars, botVars>>

committed_rows(rows, dirty) ==
    [id \in DOMAIN rows |->
        IF id \in DOMAIN dirty
        THEN [rows[id] EXCEPT !.last_price = Some(Numeric(dirty[id].last_price)),
                              !.last_checked_at = dirty[id].last_checked_at]
        ELSE rows[id]]

\* the loop is over: the last flush, the commit of session_scope, return events
CommitRun ==
    /\ run.pc = "loop"
    /\ run.i > Len(run.batch)
    /\ products' = ranked(committed_rows(products, session.dirty))
    /\ price_events' = [k \in 1..Len(session.new) |-> event_row(session.new[k])]
    /\ session' = NoSession
    /\ run' = [run EXCEPT !.pc = "returned"]
    /\ now' = utcnow(products')
    /\ UNCHANGED <<msklad, last_check>>
    /\ UNCHANGED <<rulesVars, fetchVars, scraperVars, parserVars, clientVars, botVars>>

NextRuns == StartNextRun \/ CheckNext \/ CommitRun

SpecRuns == InitRuns /\ [][NextRuns]_vars

\* the interval job fires again and again, and a run that started goes on
SpecRunsFair ==
    SpecRuns /\ WF_vars(StartNextRun) /\ WF_vars(CheckNext) /\ WF_vars(CommitRun)

\* a product whose own check never raises
Checkable(id) ==
    /\ id \in DOMAIN products
    /\ products[id].enabled
    /\ \A fetched \in PagesUp(products[id].parser_adapter) :
            checks_of_runs[id][products[id]][fetched][now].outcome # "raised"
NeverChecked(id) == id \in DOMAIN products /\ products[id].last_checked_at = NullTime
CheckedOnce(id) == id \in DOMAIN products /\ products[id].last_checked_at # NullTime

dom_variant_key(combos, variant) ==
    IF combos = <<>> THEN variant
    ELSE IF select_dom_variant(combos, variant).matched THEN variant
    ELSE Some(select_dom_variant(combos, variant).key)

\* the requested variant matched none of the page's variants, and the first
\* one was taken
JsonFellBack == JsonSelected /\ args.variant # None /\ ~ret.matched /\ ret.chosen # None
DomFellBack == DomSelected /\ args.variant # None /\ ~ret.matched

\* C30: when the requested variant matches none of the page's variants and
\* the first variant is taken, the snapshot's variant_key is the key of that
\* first variant, on the embedded-JSON path and on the DOM path
C30_VariantKeyNamesReportedVariant ==
    /\ JsonFellBack => ret.variant_key = Some(args.names[1])
    /\ DomFellBack =>
           dom_variant_key(build_variant_combinations(args.blocks), args.variant)
               = Some(build_variant_key(build_variant_combinations(args.blocks)[1]))
====
